---- MODULE Spec2Model ----
(***************************************************************************)
(* Kleinanzeigen-Hunter: the rentals store (utils/database.py), the        *)
(* listing scraper (scrapers/rentals.py, utils/browser.py) and the Redis   *)
(* response cache (utils/cache.py).                                        *)
(*                                                                         *)
(* Text is a tuple of one-character strings ("c203" is <<"c","2","0","3">>,*)
(* "" is <<>>); Python's None is the tuple None below, which no text       *)
(* equals.  An Optional[int] is boxed: <<>> is None and <<n>> is n.        *)
(***************************************************************************)
EXTENDS Integers, Sequences, FiniteSets, TLC

VARIABLES
    rows,       \* the rentals table, in rowid order
    last,       \* the store call whose result the caller holds
    scrape,     \* the get_rentals_klaz call in progress, or the last one
    config,     \* config.CACHE_ENABLED and config.REDIS_URL, read from the environment
    cache_state,\* utils/cache.py: _cache_state
    redis,      \* the entries the Redis server holds
    cache_call, \* the last call of the cache helpers and what it did
    request,    \* the GET /rentals request being served, or the last one
    url_call,   \* the last call of build_search_url and the one before it
    key_call,   \* the last call of build_cache_key
    validated,  \* the last call of a field validator of RealEstateResult
    sessions,   \* the bulk_insert_rentals calls of two workers, statement by statement
    workers,    \* two GET /rentals requests served at the same time, after their miss
    managers,   \* the PlaywrightManager objects: _playwright and _browser
    browsers,   \* the Playwright driver and the Chromium each request started
    browser_pages   \* the page each request opened

vars == <<rows, last, scrape, config, cache_state, redis, cache_call,
          request, url_call, key_call, validated, sessions,
          workers, managers, browsers, browser_pages>>
store_vars == <<rows, last>>
cache_vars == <<config, cache_state, redis, cache_call>>
router_vars == <<request, url_call, key_call>>
browser_vars == <<workers, managers, browsers, browser_pages>>
worker_vars == <<validated, sessions, browser_vars>>

-----------------------------------------------------------------------------
(* Bounds *)

MaxGen == 2        \* generations of sample field values
MaxAdid == 2       \* sample listings
MaxBatch == 2      \* records per bulk batch
MaxPages == 2      \* page_count of a scrape
MaxCards == 2      \* listing cards on one result page
MaxKeys == 2       \* cache keys in use

-----------------------------------------------------------------------------
(* Python values *)

None == <<"None">>
NoneInt == <<>>
Boxed(n) == <<n>>

\* bool(v) of an Optional[str]
Truthy(v) == v # None /\ v # <<>>
\* bool(v) of an Optional[int]
TruthyInt(v) == v # NoneInt /\ v[1] # 0
\* a or b
Or(a, b) == IF Truthy(a) THEN a ELSE b
OrInt(a, b) == IF TruthyInt(a) THEN a ELSE b

Digit == <<"0", "1", "2", "3", "4", "5", "6", "7", "8", "9">>

-----------------------------------------------------------------------------
(* utils/database.py *)

ListingFields ==
    {"url", "title", "price", "old_price", "description", "rental_space",
     "nbr_rooms", "available_from", "views", "location"}
ContextFields == {"postal_code", "category", "location_id", "radius"}

\* Column(..., nullable=False) of the columns the callers set
NotNullColumns == {"adid", "url", "title", "price", "old_price"}

\* session.query(Rental).filter_by(adid=adid): inside a session the query
\* autoflushes, so rows added earlier in the same session are seen
RowsWithAdid(table, adid) == {i \in 1..Len(table) : table[i].adid = adid}

\* mutant: the table has no unique constraint on adid
FlushOKNoUnique(table, i, row) == \A f \in NotNullColumns : row[f] # None
\* the constraints the database checks when a row is flushed
FlushOK(table, i, row) ==
    /\ \A f \in NotNullColumns : row[f] # None
    /\ \A j \in 1..Len(table) : j # i => table[j].adid # row.adid

NewRowBulkRaw(id, r, c) ==
    [id |-> id, adid |-> r.adid,
     url |-> r.url, title |-> r.title, price |-> r.price,
     old_price |-> Or(r.old_price, <<"0">>),
     description |-> r.description, rental_space |-> r.rental_space,
     nbr_rooms |-> r.nbr_rooms, available_from |-> r.available_from,
     views |-> r.views, location |-> r.location,
     postal_code |-> c.postal_code, category |-> c.category,
     location_id |-> c.location_id, radius |-> c.radius]
\* bulk_insert_rentals, the insert path
NewRowBulk(id, r, c) ==
    [id |-> id, adid |-> r.adid,
     url |-> Or(r.url, <<>>), title |-> Or(r.title, <<>>),
     price |-> Or(r.price, <<>>), old_price |-> Or(r.old_price, <<"0">>),
     description |-> r.description, rental_space |-> r.rental_space,
     nbr_rooms |-> r.nbr_rooms, available_from |-> r.available_from,
     views |-> r.views, location |-> r.location,
     postal_code |-> c.postal_code, category |-> c.category,
     location_id |-> c.location_id, radius |-> c.radius]

UpdatedRowBulkOverwrite(e, r, c) ==
    [e EXCEPT
        !.url = Or(r.url, e.url), !.title = Or(r.title, e.title),
        !.price = Or(r.price, e.price),
        !.old_price = Or(Or(r.old_price, e.old_price), <<"0">>),
        !.description = r.description,
        !.rental_space = Or(r.rental_space, e.rental_space),
        !.nbr_rooms = Or(r.nbr_rooms, e.nbr_rooms),
        !.available_from = Or(r.available_from, e.available_from),
        !.views = Or(r.views, e.views),
        !.location = Or(r.location, e.location),
        !.postal_code = Or(c.postal_code, e.postal_code),
        !.category = Or(c.category, e.category),
        !.location_id = Or(c.location_id, e.location_id),
        !.radius = OrInt(c.radius, e.radius)]
UpdatedRowBulkKeepsContext(e, r, c) ==
    [e EXCEPT
        !.url = Or(r.url, e.url), !.title = Or(r.title, e.title),
        !.price = Or(r.price, e.price),
        !.old_price = Or(Or(r.old_price, e.old_price), <<"0">>),
        !.description = Or(r.description, e.description),
        !.rental_space = Or(r.rental_space, e.rental_space),
        !.nbr_rooms = Or(r.nbr_rooms, e.nbr_rooms),
        !.available_from = Or(r.available_from, e.available_from),
        !.views = Or(r.views, e.views),
        !.location = Or(r.location, e.location)]
\* bulk_insert_rentals, the update path
UpdatedRowBulk(e, r, c) ==
    [e EXCEPT
        !.url = Or(r.url, e.url), !.title = Or(r.title, e.title),
        !.price = Or(r.price, e.price),
        !.old_price = Or(Or(r.old_price, e.old_price), <<"0">>),
        !.description = Or(r.description, e.description),
        !.rental_space = Or(r.rental_space, e.rental_space),
        !.nbr_rooms = Or(r.nbr_rooms, e.nbr_rooms),
        !.available_from = Or(r.available_from, e.available_from),
        !.views = Or(r.views, e.views),
        !.location = Or(r.location, e.location),
        !.postal_code = Or(c.postal_code, e.postal_code),
        !.category = Or(c.category, e.category),
        !.location_id = Or(c.location_id, e.location_id),
        !.radius = OrInt(c.radius, e.radius)]

\* the state of one bulk_insert_rentals session
BulkStart(table) ==
    [rows |-> table, inserted |-> 0, updated |-> 0, raised |-> FALSE]

BulkStepKeepEmptyAdid(st, r, c) ==
    IF st.raised \/ r.adid = None THEN st
    ELSE LET hits == RowsWithAdid(st.rows, r.adid) IN
         IF Cardinality(hits) > 1
         THEN [st EXCEPT !.raised = TRUE]
         ELSE IF hits = {}
         THEN LET new == NewRowBulk(Len(st.rows) + 1, r, c) IN
              IF FlushOK(st.rows, Len(st.rows) + 1, new)
              THEN [st EXCEPT !.rows = Append(@, new), !.inserted = @ + 1]
              ELSE [st EXCEPT !.raised = TRUE]
         ELSE LET i == CHOOSE i \in hits : TRUE
                  upd == UpdatedRowBulk(st.rows[i], r, c) IN
              IF FlushOK(st.rows, i, upd)
              THEN [st EXCEPT !.rows[i] = upd, !.updated = @ + 1]
              ELSE [st EXCEPT !.raised = TRUE]
BulkStepNoAutoflush(st, r, c) ==
    IF st.raised \/ ~Truthy(r.adid) THEN st
    ELSE LET hits == {i \in RowsWithAdid(st.rows, r.adid) :
                        i <= Len(st.rows) - st.inserted} IN
         IF Cardinality(hits) > 1
         THEN [st EXCEPT !.raised = TRUE]
         ELSE IF hits = {}
         THEN LET new == NewRowBulk(Len(st.rows) + 1, r, c) IN
              IF FlushOK(st.rows, Len(st.rows) + 1, new)
              THEN [st EXCEPT !.rows = Append(@, new), !.inserted = @ + 1]
              ELSE [st EXCEPT !.raised = TRUE]
         ELSE LET i == CHOOSE i \in hits : TRUE
                  upd == UpdatedRowBulk(st.rows[i], r, c) IN
              IF FlushOK(st.rows, i, upd)
              THEN [st EXCEPT !.rows[i] = upd, !.updated = @ + 1]
              ELSE [st EXCEPT !.raised = TRUE]
\* one iteration of the loop over the batch
BulkStep(st, r, c) ==
    IF st.raised \/ ~Truthy(r.adid) THEN st
    ELSE LET hits == RowsWithAdid(st.rows, r.adid) IN
         IF Cardinality(hits) > 1
         THEN [st EXCEPT !.raised = TRUE]       \* one_or_none(): MultipleResultsFound
         ELSE IF hits = {}
         THEN LET new == NewRowBulk(Len(st.rows) + 1, r, c) IN
              IF FlushOK(st.rows, Len(st.rows) + 1, new)
              THEN [st EXCEPT !.rows = Append(@, new), !.inserted = @ + 1]
              ELSE [st EXCEPT !.raised = TRUE]  \* IntegrityError
         ELSE LET i == CHOOSE i \in hits : TRUE
                  upd == UpdatedRowBulk(st.rows[i], r, c) IN
              IF FlushOK(st.rows, i, upd)
              THEN [st EXCEPT !.rows[i] = upd, !.updated = @ + 1]
              ELSE [st EXCEPT !.raised = TRUE]

RECURSIVE BulkLoop(_, _, _)
BulkLoop(st, batch, c) ==
    IF batch = <<>> THEN st
    ELSE BulkLoop(BulkStep(st, Head(batch), c), Tail(batch), c)

\* what a store call gives back: the table as committed, and the return
\* value (insert_rental's True is inserted = 1, its False is updated = 1)
Outcome(table, raised, inserted, updated) ==
    [rows |-> table, ret |-> [raised |-> raised, inserted |-> inserted,
                              updated |-> updated]]

\* bulk_insert_rentals(rentals, postal_code, category, location_id, radius):
\* one session, one commit; an exception leaves the session without a commit
BulkInsert(table, batch, c) ==
    LET st == BulkLoop(BulkStart(table), batch, c) IN
    IF st.raised THEN Outcome(table, TRUE, 0, 0)
    ELSE Outcome(st.rows, FALSE, st.inserted, st.updated)

\* insert_rental, the insert path
NewRowSingle(id, a) ==
    [id |-> id, adid |-> a.adid, url |-> a.url, title |-> a.title,
     price |-> a.price, old_price |-> Or(a.old_price, <<"0">>),
     description |-> a.description, rental_space |-> a.rental_space,
     nbr_rooms |-> a.nbr_rooms, available_from |-> a.available_from,
     views |-> a.views, location |-> a.location,
     postal_code |-> a.postal_code, category |-> a.category,
     location_id |-> a.location_id, radius |-> a.radius]

\* insert_rental, the update path
UpdatedRowSingle(e, a) ==
    [e EXCEPT
        !.url = a.url, !.title = a.title, !.price = a.price,
        !.old_price = Or(a.old_price, <<"0">>),
        !.description = a.description, !.rental_space = a.rental_space,
        !.nbr_rooms = a.nbr_rooms, !.available_from = a.available_from,
        !.views = a.views, !.location = a.location,
        !.postal_code = a.postal_code, !.category = a.category,
        !.location_id = a.location_id, !.radius = a.radius]

\* insert_rental(adid, url, ..., radius)
InsertOne(table, a) ==
    LET hits == RowsWithAdid(table, a.adid) IN
    IF Cardinality(hits) > 1 THEN Outcome(table, TRUE, 0, 0)
    ELSE IF hits = {}
    THEN LET new == NewRowSingle(Len(table) + 1, a) IN
         IF FlushOK(table, Len(table) + 1, new)
         THEN Outcome(Append(table, new), FALSE, 1, 0)
         ELSE Outcome(table, TRUE, 0, 0)
    ELSE LET i == CHOOSE i \in hits : TRUE
             upd == UpdatedRowSingle(table[i], a) IN
         IF FlushOK(table, i, upd)
         THEN Outcome([table EXCEPT ![i] = upd], FALSE, 0, 1)
         ELSE Outcome(table, TRUE, 0, 0)

\* get_rental_by_adid(adid): <<>> for None, <<row>> for the dict (the two
\* timestamps are not modelled)
GetRentalByAdid(table, adid) ==
    LET hits == RowsWithAdid(table, adid) IN
    IF hits = {} THEN <<>> ELSE <<table[CHOOSE i \in hits : TRUE]>>

-----------------------------------------------------------------------------
(* utils/cache.py *)

CACHE_TTL_SECONDS == 3600

\* config.py: the REDIS_URL built from REDIS_HOST, REDIS_PORT and REDIS_DB
DefaultRedisUrl ==
    <<"r", "e", "d", "i", "s", ":", "/", "/", "l", "o", "c", "a", "l", "h", "o", "s", "t",
      ":", "6", "3", "7", "9", "/", "0">>

CacheAvailableIgnoringUrl(cfg, st) == cfg.CACHE_ENABLED /\ ~st.disabled
\* cache_available()
CacheAvailable(cfg, st) ==
    cfg.CACHE_ENABLED /\ cfg.REDIS_URL # <<>> /\ ~st.disabled

\* get_redis_client(): _cache_state after it
WithClient(st) == [st EXCEPT !.client = TRUE]

DisableCacheNever(st) == st
\* _disable_cache(exc)
DisableCache(st) == IF ~st.disabled THEN [st EXCEPT !.disabled = TRUE] ELSE st

CloseCacheStateReset(st) == [client |-> FALSE, disabled |-> FALSE]
\* close_cache(): _cache_state after it
CloseCacheState(st) == IF st.client THEN [st EXCEPT !.client = FALSE] ELSE st

\* json.dumps(value, default=str) and json.loads(payload) of a str value; a
\* list of listings is written as its JSON text, which is its payload and
\* what json.loads gives for it, and a payload that is no JSON text is
\* returned as it is
JsonDumps(value) == <<"\"">> \o value \o <<"\"">>
JsonLoads(payload) ==
    IF Len(payload) >= 2 /\ payload[1] = "\"" /\ payload[Len(payload)] = "\""
    THEN SubSeq(payload, 2, Len(payload) - 1)
    ELSE payload

NoEntry == [payload |-> None, ex |-> 0]
CacheKeys == {<<"r", "e", "n", "t", "a", "l", "s", ":", Digit[n + 1]>> : n \in 1..MaxKeys}
CacheValues == {<<"a">>, <<"b">>}
Ttls == {NoneInt, Boxed(60)}

-----------------------------------------------------------------------------
(* Sample inputs of the store *)

Adid(n) == <<"7", Digit[n + 1]>>
Val(f, g) == <<f, Digit[g + 1]>>
RecordKeys == {"adid"} \cup ListingFields

\* a scraped record with every key populated; r.get(k) of a missing key is None
FullRecord(adid, g) ==
    [f \in RecordKeys |-> IF f = "adid" THEN adid ELSE Val(f, g)]
Blanked(r, fields, blank) ==
    [f \in DOMAIN r |-> IF f \in fields THEN blank ELSE r[f]]

Ctx1 == [postal_code |-> <<"7", "4", "0", "7", "2">>, category |-> <<"c", "2", "0", "3">>,
         location_id |-> <<"l", "9", "2", "4", "5">>, radius |-> Boxed(5)]
Ctx2 == [postal_code |-> <<"1", "0", "1", "1", "5">>, category |-> <<"c", "1", "9", "9">>,
         location_id |-> None, radius |-> Boxed(10)]
\* bulk_insert_rentals(rentals) with the defaults
CtxDefault == [postal_code |-> None, category |-> None, location_id |-> None,
               radius |-> NoneInt]
Contexts == {Ctx1, Ctx2, CtxDefault}

\* records of one listing: populated, description emptied, the keys the
\* scraper never sets missing, and every field None or ""
FieldRecords ==
    UNION {{FullRecord(Adid(1), g),
            Blanked(FullRecord(Adid(1), g), {"description"}, <<>>),
            Blanked(FullRecord(Adid(1), g), {"views", "location", "available_from"}, None)}
           : g \in 1..MaxGen}
    \cup {Blanked(FullRecord(Adid(1), 1), ListingFields, b) : b \in {None, <<>>}}
FieldBatches == {<<r>> : r \in FieldRecords}

\* records of several listings, the first of them also with every field
\* missing, and records without an adid
RowRecords ==
    {FullRecord(Adid(n), 1) : n \in 1..MaxAdid}
    \cup {Blanked(FullRecord(Adid(1), 1), ListingFields, None),
          FullRecord(None, 1), FullRecord(<<>>, 1)}
RowBatches == UNION {[1..n -> RowRecords] : n \in 0..MaxBatch}

\* the arguments of insert_rental
SingleArgs(r, c) == r @@ c

-----------------------------------------------------------------------------
(* scrapers/rentals.py: text helpers *)

\* config.KLEINANZEIGEN_BASE_URL
KLEINANZEIGEN_BASE_URL ==
    <<"h", "t", "t", "p", "s", ":", "/", "/", "w", "w", "w", ".",
      "k", "l", "e", "i", "n", "a", "n", "z", "e", "i", "g", "e", "n", ".", "d", "e">>

\* s.rstrip(ch)
RECURSIVE RStrip(_, _)
RStrip(s, ch) ==
    IF s # <<>> /\ s[Len(s)] = ch THEN RStrip(SubSeq(s, 1, Len(s) - 1), ch) ELSE s

\* s.lstrip(chars)
RECURSIVE LStrip(_, _)
LStrip(s, chars) ==
    IF s # <<>> /\ s[1] \in chars THEN LStrip(Tail(s), chars) ELSE s

\* s.split(ch): the pieces between the separators, empty pieces kept
RECURSIVE Split(_, _)
Split(s, ch) ==
    IF \A i \in 1..Len(s) : s[i] # ch THEN <<s>>
    ELSE LET i == CHOOSE i \in 1..Len(s) :
                      s[i] = ch /\ \A j \in 1..(i - 1) : s[j] # ch IN
         <<SubSeq(s, 1, i - 1)>> \o Split(SubSeq(s, i + 1, Len(s)), ch)

NormalizeCategoryIdKeepPrefix(category) ==
    IF ~Truthy(category) THEN None ELSE category
\* _normalize_category_id(category)
NormalizeCategoryId(category) ==
    IF ~Truthy(category) THEN None
    ELSE LET t == LStrip(category, {"c", "C"}) IN IF t = <<>> THEN None ELSE t

\* _extract_category_id_from_url(url)
ExtractCategoryIdFromUrl(url) ==
    LET segments == Split(RStrip(url, "/"), "/")
        parts == Split(segments[Len(segments)], "-") IN
    IF Len(parts) >= 2 THEN parts[2] ELSE None

\* get_rentals_klaz: allowed_category_ids, and get_rental_ads: normalized_allowed
NormalizedAllowed(category) ==
    LET expected == NormalizeCategoryId(category) IN
    IF Truthy(expected) THEN {expected} ELSE {}

-----------------------------------------------------------------------------
(* scrapers/rentals.py: get_rental_ads *)

PromotedClasses == {"is-topad", "badge-hint-pro-small-srp"}

SelectItemsAll(cards) == cards
\* page.query_selector_all(".ad-listitem:not(.is-topad):not(.badge-hint-pro-small-srp)")
SelectItems(cards) == SelectSeq(cards, LAMBDA k : k.classes \cap PromotedClasses = {})

\* the dict built from one card (title, price, old price, description and the
\* detail fields are the texts the card's DOM queries and regex searches give)
ResultItem(k) ==
    [adid |-> k.adid, url |-> KLEINANZEIGEN_BASE_URL \o k.href, title |-> k.title,
     price |-> k.price, old_price |-> k.old_price, description |-> k.description,
     rental_space |-> k.rental_space, nbr_rooms |-> k.nbr_rooms,
     available_from |-> None]

\* the category filter: the card is skipped
FilteredOut(k, allowed) ==
    allowed # {} /\ ExtractCategoryIdFromUrl(KLEINANZEIGEN_BASE_URL \o k.href) \notin allowed

\* the body of the loop over the items: the records one item adds
ItemResults(k, allowed) ==
    IF ~k.article THEN <<>>
    ELSE IF ~(Truthy(k.adid) /\ Truthy(k.href)) THEN <<>>
    ELSE IF FilteredOut(k, allowed) THEN <<>>
    ELSE <<ResultItem(k)>>

RECURSIVE CollectItemsReversed(_, _)
CollectItemsReversed(items, allowed) ==
    IF items = <<>> THEN <<>>
    ELSE CollectItemsReversed(Tail(items), allowed) \o ItemResults(Head(items), allowed)
\* for idx, item in enumerate(items): ... results.append(result_item)
RECURSIVE CollectItems(_, _)
CollectItems(items, allowed) ==
    IF items = <<>> THEN <<>>
    ELSE ItemResults(Head(items), allowed) \o CollectItems(Tail(items), allowed)

\* get_rental_ads(page, allowed_category_ids)
GetRentalAds(cards, allowed) == CollectItems(SelectItems(cards), allowed)

-----------------------------------------------------------------------------
(* scrapers/rentals.py: build_search_url *)

\* str(n) of an int
RECURSIVE StrNat(_)
StrNat(n) == IF n < 10 THEN <<Digit[n + 1]>> ELSE StrNat(n \div 10) \o <<Digit[(n % 10) + 1]>>
Str(n) == IF n < 0 THEN <<"-">> \o StrNat(0 - n) ELSE StrNat(n)

\* str(price) if price is not None else ""
PriceStr(price) == IF price # NoneInt THEN Str(price[1]) ELSE <<>>

PricePathRendersNone(min_price, max_price) ==
    IF min_price # NoneInt \/ max_price # NoneInt
    THEN <<"/", "p", "r", "e", "i", "s", ":">>
         \o (IF min_price # NoneInt THEN Str(min_price[1]) ELSE <<"N", "o", "n", "e">>)
         \o <<":">>
         \o (IF max_price # NoneInt THEN Str(max_price[1]) ELSE <<"N", "o", "n", "e">>)
    ELSE <<>>
\* price_path
PricePath(min_price, max_price) ==
    IF min_price # NoneInt \/ max_price # NoneInt
    THEN <<"/", "p", "r", "e", "i", "s", ":">> \o PriceStr(min_price) \o <<":">> \o PriceStr(max_price)
    ELSE <<>>

\* page_path
PagePath(page) == IF page > 1 THEN <<"/", "s", "e", "i", "t", "e", ":">> \o Str(page) ELSE <<>>

\* build_search_url(postal_code, category, location_id, radius, min_price,
\* max_price, page)
BuildSearchUrl(a) ==
    KLEINANZEIGEN_BASE_URL
    \o <<"/", "s", "-", "w", "o", "h", "n", "u", "n", "g", "-", "m", "i", "e", "t", "e", "n", "/">> \o a.postal_code
    \o PricePath(a.min_price, a.max_price) \o PagePath(a.page)
    \o <<"/">> \o a.category
    \o (IF Truthy(a.location_id) THEN a.location_id ELSE <<>>)
    \o <<"r">> \o Str(a.radius)

-----------------------------------------------------------------------------
(* utils/cache.py: build_cache_key.  A keyword argument is a record of its  *)
(* name and its value; a value is None, a str or an int, kept as its kind   *)
(* and its text (the text of an int is str(n)).                             *)

NoneValue == [kind |-> "none", text |-> <<>>]
StrValue(s) == [kind |-> "str", text |-> s]
IntValue(n) == [kind |-> "int", text |-> Str(n)]
\* an Optional[str] or Optional[int] of the model as such a value
OptStrValue(v) == IF v = None THEN NoneValue ELSE StrValue(v)
OptIntValue(v) == IF v = NoneInt THEN NoneValue ELSE IntValue(v[1])

\* the characters in code point order
CodePointOrder ==
    <<"0", "1", "2", "3", "4", "5", "6", "7", "8", "9", "_",
      "a", "b", "c", "d", "e", "f", "g", "h", "i", "j", "k", "l", "m",
      "n", "o", "p", "q", "r", "s", "t", "u", "v", "w", "x", "y", "z">>
Ord(ch) == CHOOSE i \in 1..Len(CodePointOrder) : CodePointOrder[i] = ch

\* s < t of two str
RECURSIVE LessText(_, _)
LessText(s, t) ==
    IF s = <<>> THEN t # <<>>
    ELSE IF t = <<>> THEN FALSE
    ELSE IF s[1] = t[1] THEN LessText(Tail(s), Tail(t))
    ELSE Ord(s[1]) < Ord(t[1])

SortedItemsAsGiven(items) == items
\* sorted(params.items()): the (name, value) tuples ordered by name; names of
\* keyword arguments are distinct, so no two values are ever compared
RECURSIVE InsertItem(_, _)
InsertItem(item, sorted) ==
    IF sorted = <<>> THEN <<item>>
    ELSE IF LessText(Head(sorted).name, item.name)
         THEN <<Head(sorted)>> \o InsertItem(item, Tail(sorted))
         ELSE <<item>> \o sorted
RECURSIVE SortedItems(_)
SortedItems(items) ==
    IF items = <<>> THEN <<>>
    ELSE InsertItem(items[Len(items)], SortedItems(SubSeq(items, 1, Len(items) - 1)))

\* json.dumps of a str: quoted, with " and \ escaped
RECURSIVE JsonEscape(_)
JsonEscape(s) ==
    IF s = <<>> THEN <<>>
    ELSE (IF Head(s) \in {"\"", "\\"} THEN <<"\\", Head(s)>> ELSE <<Head(s)>>)
         \o JsonEscape(Tail(s))
JsonString(s) == <<"\"">> \o JsonEscape(s) \o <<"\"">>

\* json.dumps of a value
JsonValue(v) ==
    CASE v.kind = "none" -> <<"n", "u", "l", "l">>
      [] v.kind = "int" -> v.text
      [] v.kind = "str" -> JsonString(v.text)

\* json.dumps(items, default=str, separators=(",", ":")) of a list of tuples
RECURSIVE JsonItems(_)
JsonItems(items) ==
    IF items = <<>> THEN <<>>
    ELSE <<"[">> \o JsonString(Head(items).name) \o <<",">> \o JsonValue(Head(items).value)
         \o <<"]">> \o (IF Len(items) > 1 THEN <<",">> ELSE <<>>) \o JsonItems(Tail(items))
Serialized(params) == <<"[">> \o JsonItems(SortedItems(params)) \o <<"]">>

\* hashlib.sha1(serialized.encode("utf-8")).hexdigest(): the digest is not
\* computed; it is written as the text it is the digest of, so that distinct
\* texts have distinct digests
Sha1HexDigest(serialized) == <<"s", "h", "a", "1", ":">> \o serialized

\* build_cache_key(namespace, **params)
BuildCacheKey(namespace, params) == namespace \o <<":">> \o Sha1HexDigest(Serialized(params))

-----------------------------------------------------------------------------
(* models/results.py: a RealEstateResult built from a scraped item, and    *)
(* its model_dump().  The list of dumped listings is written as the text   *)
(* json.dumps gives for it: a str quoted, an int or a float as its         *)
(* digits, None as null.                                                    *)

\* ch.isdigit()
\* ch.isdigit(): the decimal digits and, of the other characters isdigit()
\* accepts, the superscript two
IsDigit(ch) == ch = "²" \/ \E i \in 1..10 : Digit[i] = ch
\* s.isdigit()
IsDigits(s) == s # <<>> /\ \A i \in 1..Len(s) : IsDigit(s[i])
\* int(s) of a str of digits
RECURSIVE IntOf(_)
IntOf(s) ==
    IF s = <<>> THEN 0
    ELSE 10 * IntOf(SubSeq(s, 1, Len(s) - 1))
         + ((CHOOSE i \in 1..10 : Digit[i] = s[Len(s)]) - 1)

\* the ValueError int(s) raises for a str that is no decimal literal, written
\* as a value that is neither a boxed int nor None
ValueError == <<0, 0>>

\* s.strip()
RECURSIVE Strip(_)
Strip(s) ==
    IF s # <<>> /\ s[1] \in {" ", "\t", "\n"} THEN Strip(Tail(s))
    ELSE IF s # <<>> /\ s[Len(s)] \in {" ", "\t", "\n"}
    THEN Strip(SubSeq(s, 1, Len(s) - 1))
    ELSE s
\* s.replace(old, new) of a single character old; new may be empty
RECURSIVE Replace(_, _, _)
Replace(s, old, new) ==
    IF s = <<>> THEN <<>>
    ELSE (IF Head(s) = old THEN new ELSE <<Head(s)>>) \o Replace(Tail(s), old, new)

\* ListingResult._normalize_price
NormalizePrice(value) ==
    IF value \in {None, <<>>, <<"-">>} THEN NoneInt
    ELSE LET digits == Replace(Strip(value), " ", <<>>) IN
         IF ~IsDigits(digits) THEN NoneInt
         ELSE IF \E i \in 1..Len(digits) : digits[i] = "²" THEN ValueError
         ELSE Boxed(IntOf(digits))

\* RealEstateResult._normalize_views
NormalizeViews(value) ==
    IF value \in {None, <<>>} THEN NoneInt
    ELSE LET digits == SelectSeq(value, IsDigit) IN
         IF digits = <<>> THEN NoneInt
         ELSE IF \E i \in 1..Len(digits) : digits[i] = "²" THEN ValueError
         ELSE Boxed(IntOf(digits))

\* `return float(cleaned) if cleaned else None` with `except ValueError:
\* return None`, for a str without sign, exponent, underscore or letters: the
\* float as json.dumps writes it (no leading zeros before the point, no
\* trailing zeros behind it), or null; float(cleaned) raises ValueError on a
\* character that is no decimal digit and no point, on more than one point
\* and on a str without a digit
TryFloat(cleaned) ==
    LET parts == Split(cleaned, ".")
        whole == LStrip(parts[1], {"0"})
        frac == IF Len(parts) > 1 THEN RStrip(parts[2], "0") ELSE <<>>
    IN IF \/ cleaned = <<>> \/ Len(parts) > 2 \/ cleaned = <<".">>
          \/ \E i \in 1..Len(cleaned) : cleaned[i] = "²" \/ ~(IsDigit(cleaned[i]) \/ cleaned[i] = ".")
       THEN <<"n", "u", "l", "l">>
       ELSE (IF whole = <<>> THEN <<"0">> ELSE whole) \o <<".">>
            \o (IF frac = <<>> THEN <<"0">> ELSE frac)

\* RealEstateResult._normalize_rental_space and _normalize_nbr_rooms
NormalizeFloat(value) ==
    IF value \in {None, <<>>} THEN <<"n", "u", "l", "l">>
    ELSE TryFloat(SelectSeq(Strip(Replace(value, ",", <<".">>)),
                            LAMBDA ch : IsDigit(ch) \/ ch = "."))

\* RealEstateResult._normalize_cost_like for None and for a str without the
\* letters of EUR and VB, whose replace() calls then change nothing
NormalizeCostLike(value) ==
    IF value \in {None, <<>>, <<"-">>} THEN <<"n", "u", "l", "l">>
    ELSE LET stripped == Strip(Replace(Replace(value, "€", <<>>), " ", <<>>))
             comma == \E i \in 1..Len(stripped) : stripped[i] = ","
             dot == \E i \in 1..Len(stripped) : stripped[i] = "."
             parts == Split(stripped, ".")
         IN TryFloat(IF comma /\ dot
                     THEN Replace(Replace(stripped, ".", <<>>), ",", <<".">>)
                     ELSE IF comma THEN Replace(stripped, ",", <<".">>)
                     ELSE IF dot /\ Len(parts) = 2 /\ Len(parts[2]) = 3
                     THEN Replace(stripped, ".", <<>>)
                     ELSE stripped)

\* old_price: Optional[int] has no validator: None stays None and a str of
\* digits is read as an int
OldPrice(value) == IF value = None THEN NoneInt ELSE Boxed(IntOf(value))

\* the RealEstateResult of item is built without a ValidationError: id (alias
\* adid), url and title are required str, and an old_price that is a str
\* other than a number fails the validation
Validates(item) ==
    /\ item.adid # None /\ item.url # None /\ item.title # None
    /\ item.old_price = None
       \/ (IsDigits(item.old_price)
           /\ \A i \in 1..Len(item.old_price) : item.old_price[i] # "²")
    /\ NormalizePrice(item.price) # ValueError
    /\ NormalizeViews(item.views) # ValueError

JsonOptStr(v) == IF v = None THEN <<"n", "u", "l", "l">> ELSE JsonString(v)
JsonOptInt(v) == IF v = NoneInt THEN <<"n", "u", "l", "l">> ELSE Str(v[1])

\* json.dumps of the model_dump() of one validated item: the fields in the
\* order the models declare them; additional_costs and deposit are never
\* among the keys of a scraped item
ModelDump(item) ==
    <<"{", "\"", "i", "d", "\"", ":", " ">> \o JsonString(item.adid)
    \o <<",", " ", "\"", "u", "r", "l", "\"", ":", " ">> \o JsonString(item.url)
    \o <<",", " ", "\"", "t", "i", "t", "l", "e", "\"", ":", " ">> \o JsonString(item.title)
    \o <<",", " ", "\"", "p", "r", "i", "c", "e", "\"", ":", " ">> \o JsonOptInt(NormalizePrice(item.price))
    \o <<",", " ", "\"", "d", "e", "s", "c", "r", "i", "p", "t", "i", "o", "n", "\"", ":", " ">> \o JsonOptStr(item.description)
    \o <<",", " ", "\"", "r", "e", "n", "t", "a", "l", "_", "s", "p", "a", "c", "e", "\"", ":", " ">> \o NormalizeFloat(item.rental_space)
    \o <<",", " ", "\"", "n", "b", "r", "_", "r", "o", "o", "m", "s", "\"", ":", " ">> \o NormalizeFloat(item.nbr_rooms)
    \o <<",", " ", "\"", "l", "o", "c", "a", "t", "i", "o", "n", "\"", ":", " ">> \o JsonOptStr(item.location)
    \o <<",", " ", "\"", "v", "i", "e", "w", "s", "\"", ":", " ">> \o JsonOptInt(NormalizeViews(item.views))
    \o <<",", " ", "\"", "d", "e", "t", "a", "i", "l", "s", "\"", ":", " ">> \o <<"{", "}">>
    \o <<",", " ", "\"", "f", "e", "a", "t", "u", "r", "e", "s", "\"", ":", " ">> \o <<"{", "}">>
    \o <<",", " ", "\"", "o", "l", "d", "_", "p", "r", "i", "c", "e", "\"", ":", " ">> \o JsonOptInt(OldPrice(item.old_price))
    \o <<",", " ", "\"", "a", "d", "d", "i", "t", "i", "o", "n", "a", "l", "_", "c", "o", "s", "t", "s", "\"", ":", " ", "n", "u", "l", "l", ",", " ", "\"", "d", "e", "p", "o", "s", "i", "t", "\"", ":", " ", "n", "u", "l", "l", ",", " ", "\"", "a", "v", "a", "i", "l", "a", "b", "l", "e", "_", "f", "r", "o", "m", "\"", ":", " ">>
    \o JsonOptStr(item.available_from) \o <<"}">>

RECURSIVE ModelDumps(_)
ModelDumps(results) ==
    IF results = <<>> THEN <<>>
    ELSE ModelDump(Head(results))
         \o (IF Len(results) > 1 THEN <<",", " ">> ELSE <<>>) \o ModelDumps(Tail(results))
\* listings: the model_dump() of the RealEstateResult of every item of results
Listings(results) == <<"[">> \o ModelDumps(results) \o <<"]">>

-----
(* Sample inputs of build_cache_key *)

MaxParams == 3     \* keyword arguments of one build_cache_key call

Namespaces == {<<"r", "e", "n", "t", "a", "l", "s">>, <<"r", "e", "n", "t", "a", "l", "_", "d", "e", "t", "a", "i", "l", "s">>}
ParamNames ==
    {<<"m", "a", "x", "_", "p", "r", "i", "c", "e">>,
     <<"m", "i", "n", "_", "p", "r", "i", "c", "e">>,
     <<"p", "a", "g", "e", "_", "c", "o", "u", "n", "t">>,
     <<"p", "o", "s", "t", "a", "l", "_", "c", "o", "d", "e">>}
ParamValues(name) ==
    IF name = <<"p", "o", "s", "t", "a", "l", "_", "c", "o", "d", "e">>
    THEN {StrValue(<<"7", "4", "0", "7", "2">>), StrValue(<<"7", "\"", "4", "\\">>)}
    ELSE {NoneValue, IntValue(10)}
\* the keyword arguments of a call, in the order they are written
ParamLists ==
    UNION {{items \in [1..n -> UNION {[name : {nm}, value : ParamValues(nm)] : nm \in ParamNames}] :
              \A i, j \in 1..n : i # j => items[i].name # items[j].name}
           : n \in 0..MaxParams}

-----------------------------------------------------------------------------
(* Sample inputs of the scraper *)

\* the arguments of build_search_url
SearchArgs ==
    [postal_code : {<<"7", "4", "0", "7", "2">>}, category : {<<"c", "2", "0", "3">>},
     location_id : {None, <<>>, <<"l", "9", "2", "4", "5">>}, radius : {5, 10},
     min_price : {NoneInt, Boxed(0), Boxed(500)},
     max_price : {NoneInt, Boxed(1000)},
     page : 1..MaxPages]

Path(last_segment) == <<"/", "s", "-", "a", "n", "z", "e", "i", "g", "e", "/">> \o last_segment

-----------------------------------------------------------------------------
(* routers/rentals.py: get_rentals.  A filter is the record of the query    *)
(* parameters of one request.                                               *)

CacheKeyParamsWithoutPageCount(f) ==
    <<[name |-> <<"p", "o", "s", "t", "a", "l", "_", "c", "o", "d", "e">>, value |-> StrValue(f.postal_code)],
      [name |-> <<"c", "a", "t", "e", "g", "o", "r", "y">>, value |-> StrValue(f.category)],
      [name |-> <<"l", "o", "c", "a", "t", "i", "o", "n", "_", "i", "d">>, value |-> StrValue(f.location_id)],
      [name |-> <<"r", "a", "d", "i", "u", "s">>, value |-> IntValue(f.radius)],
      [name |-> <<"m", "i", "n", "_", "p", "r", "i", "c", "e">>, value |-> OptIntValue(f.min_price)],
      [name |-> <<"m", "a", "x", "_", "p", "r", "i", "c", "e">>, value |-> OptIntValue(f.max_price)]>>
\* the keyword arguments of build_cache_key in get_rentals
CacheKeyParams(f) ==
    <<[name |-> <<"p", "o", "s", "t", "a", "l", "_", "c", "o", "d", "e">>, value |-> StrValue(f.postal_code)],
      [name |-> <<"c", "a", "t", "e", "g", "o", "r", "y">>, value |-> StrValue(f.category)],
      [name |-> <<"l", "o", "c", "a", "t", "i", "o", "n", "_", "i", "d">>, value |-> StrValue(f.location_id)],
      [name |-> <<"r", "a", "d", "i", "u", "s">>, value |-> IntValue(f.radius)],
      [name |-> <<"m", "i", "n", "_", "p", "r", "i", "c", "e">>, value |-> OptIntValue(f.min_price)],
      [name |-> <<"m", "a", "x", "_", "p", "r", "i", "c", "e">>, value |-> OptIntValue(f.max_price)],
      [name |-> <<"p", "a", "g", "e", "_", "c", "o", "u", "n", "t">>, value |-> IntValue(f.page_count)]>>

\* cache_key
RequestKey(f) == BuildCacheKey(<<"r", "e", "n", "t", "a", "l", "s">>, CacheKeyParams(f))

-----------------------------------------------------------------------------
(* Sample inputs of get_rentals *)

\* the defaults of the query parameters
DefaultFilter ==
    [postal_code |-> <<"7", "4", "0", "7", "2">>, category |-> <<"c", "2", "0", "3">>, location_id |-> <<"l", "9", "2", "4", "5">>,
     radius |-> 5, min_price |-> NoneInt, max_price |-> NoneInt, page_count |-> 1]
\* the defaults, and the defaults with one parameter changed
Filters ==
    {DefaultFilter,
     [DefaultFilter EXCEPT !.postal_code = <<"1", "0", "1", "1", "5">>],
     [DefaultFilter EXCEPT !.category = <<"c", "1", "9", "9">>],
     [DefaultFilter EXCEPT !.location_id = <<"l", "3", "3", "3", "1">>],
     [DefaultFilter EXCEPT !.radius = 10],
     [DefaultFilter EXCEPT !.min_price = Boxed(500)],
     [DefaultFilter EXCEPT !.max_price = Boxed(500)],
     [DefaultFilter EXCEPT !.page_count = 2]}

\* a scraped item
ItemA ==
    [adid |-> Adid(1), url |-> KLEINANZEIGEN_BASE_URL \o Path(Adid(1)),
     title |-> <<"A", " ", "3", " ", "Z", "i">>, price |-> <<"5", "0", "0">>, old_price |-> <<"0">>,
     description |-> <<>>, rental_space |-> <<"8", "5", ",", "5">>, nbr_rooms |-> <<"3">>,
     available_from |-> None, views |-> None, location |-> None]

\* a regular card of listing n whose detail link ends in last_segment
Card(n, last_segment) ==
    [classes |-> {}, article |-> TRUE, adid |-> Adid(n), href |-> Path(last_segment),
     title |-> Val("title", n), price |-> Val("price", n), old_price |-> <<"0">>,
     description |-> Val("description", n), rental_space |-> None, nbr_rooms |-> None]

Seg203 == <<"7", "1", "-", "2", "0", "3", "-", "9", "2", "4", "5">>
Seg90 == <<"7", "2", "-", "9", "0", "-", "9", "2", "4", "5">>
SegC203 == <<"7", "3", "-", "c", "2", "0", "3", "l", "9", "2", "4", "5">>
SegC90 == <<"7", "4", "-", "c", "9", "0", "l", "9", "2", "4", "5">>
SegNoCategory == <<"7", "5">>
SegSlash == <<"7", "6", "-", "2", "0", "3", "-", "9", "2", "4", "5", "/">>

FilterCards ==
    {Card(1, Seg203), Card(2, Seg90), Card(3, SegC203), Card(4, SegC90),
     Card(5, SegNoCategory), Card(6, SegSlash),
     [Card(7, Seg203) EXCEPT !.classes = {"is-topad"}],
     [Card(7, Seg203) EXCEPT !.classes = {"badge-hint-pro-small-srp"}],
     [Card(8, Seg203) EXCEPT !.adid = None],
     [Card(8, Seg203) EXCEPT !.href = None],
     [Card(9, Seg203) EXCEPT !.article = FALSE]}
PageCards == {Card(1, Seg203), Card(2, Seg203)}

CardLists(cards) == UNION {[1..n -> cards] : n \in 0..MaxCards}

Categories == {<<"c", "2", "0", "3">>, <<"C", "9", "0">>, <<>>}

-----------------------------------------------------------------------------
(* State *)

NoRet == [raised |-> FALSE, inserted |-> 0, updated |-> 0]
NoFirst == [before |-> <<>>, ret |-> NoRet]
NoCall == [op |-> "none", batch |-> <<>>, ctx |-> CtxDefault, before |-> <<>>,
           ret |-> NoRet, repeat |-> FALSE, first |-> NoFirst]

NoScrape ==
    [pc |-> "idle", category |-> <<>>, page_count |-> 0, i |-> 0, results |-> <<>>,
     exc |-> "none", acquired |-> FALSE, closes |-> 0, navs |-> <<>>,
     cards |-> <<>>, emitted |-> <<>>, waited |-> "none", outcome |-> "none",
     waits |-> <<>>, pages |-> <<>>, opened |-> 0]

\* config.py without CACHE_ENABLED and REDIS_URL in the environment
DefaultConfig == [CACHE_ENABLED |-> FALSE, REDIS_URL |-> DefaultRedisUrl]
Configs == [CACHE_ENABLED : BOOLEAN, REDIS_URL : {<<>>, DefaultRedisUrl}]

NoCacheCall ==
    [op |-> "none", key |-> <<>>, ret |-> None, ok |-> FALSE, failed |-> FALSE,
     raised |-> FALSE, contacted |-> FALSE, created |-> FALSE, disabled_before |-> FALSE]

NoResponse ==
    [status |-> "none", success |-> FALSE, cached |-> FALSE, data |-> <<>>,
     search_url |-> <<>>, db_stats |-> FALSE, inserted |-> 0, updated |-> 0,
     error |-> "none", body |-> "none", origin |-> {}]
\* no request made yet; seen are the filters requested so far, and written
\* tells for every entry a request wrote, and the server still holds, the
\* filter of that request
NoRequest ==
    [pc |-> "idle", filter |-> DefaultFilter, cache_key |-> <<>>, search_url |-> <<>>,
     read |-> "none", write |-> "none", browser |-> "none", results |-> <<>>,
     inserted |-> 0, updated |-> 0, listings |-> <<>>, exc |-> "none",
     scraped |-> FALSE, response |-> NoResponse, seen |-> {}, written |-> {}]
NoUrlCall == [op |-> "none"]
NoKeyCall == [op |-> "none"]

InitWith(configs) ==
    /\ rows = <<>>          \* init_database(): an empty table
    /\ last = NoCall
    /\ scrape = NoScrape
    /\ config \in configs
    /\ cache_state = [client |-> FALSE, disabled |-> FALSE]
    /\ redis = [k \in CacheKeys \cup {RequestKey(f) : f \in Filters} |-> NoEntry]
    /\ cache_call = NoCacheCall
    /\ request = NoRequest
    /\ url_call = NoUrlCall
    /\ key_call = NoKeyCall
    /\ validated = [field |-> "none"]
    /\ sessions = [s \in {1, 2} |-> [pc |-> "idle", tx |-> FALSE]]
    /\ workers = [p \in {1, 2} |-> [pc |-> "miss", manager |-> 0, exc |-> "none",
                                     started |-> FALSE, page_close |-> "none"]]
    /\ managers = [m \in {0, 1, 2} |-> [playwright |-> 0, browser |-> 0]]
    /\ browsers = [b \in {1, 2} |-> [playwright |-> "none", chromium |-> "none"]]
    /\ browser_pages = [g \in {1, 2} |-> [state |-> "none", browser |-> 0, used_by |-> {}]]

Init == InitWith({DefaultConfig})
InitEnv == InitWith(Configs)

-----------------------------------------------------------------------------
(* Store calls.  The caller holds one result at a time: it may repeat the   *)
(* call it just made with the same arguments, or drop the result.          *)

BulkInsertRentals(batches, ctxs) ==
    \E b \in batches, c \in ctxs :
        /\ \/ last.op = "none"
           \/ /\ last.op = "bulk_insert_rentals" /\ ~last.repeat
              /\ last.batch = b /\ last.ctx = c
        /\ LET out == BulkInsert(rows, b, c) IN
           /\ rows' = out.rows
           /\ last' = [op |-> "bulk_insert_rentals", batch |-> b, ctx |-> c,
                       before |-> rows, ret |-> out.ret,
                       repeat |-> last.op # "none",
                       first |-> IF last.op # "none"
                                 THEN [before |-> last.before, ret |-> last.ret]
                                 ELSE NoFirst]
           /\ UNCHANGED <<scrape, cache_vars, worker_vars, router_vars>>

InsertRental(records, ctxs) ==
    \E r \in records, c \in ctxs :
        /\ last.op = "none"
        /\ LET out == InsertOne(rows, SingleArgs(r, c)) IN
           /\ rows' = out.rows
           /\ last' = [op |-> "insert_rental", batch |-> <<r>>, ctx |-> c,
                       before |-> rows, ret |-> out.ret,
                       repeat |-> FALSE, first |-> NoFirst]
           /\ UNCHANGED <<scrape, cache_vars, worker_vars, router_vars>>

Forget ==
    /\ last.op # "none"
    /\ last' = NoCall
    /\ UNCHANGED <<rows, scrape, cache_vars, worker_vars, router_vars>>

NextFields ==
    \/ BulkInsertRentals(FieldBatches, Contexts)
    \/ InsertRental(FieldRecords, Contexts)
    \/ Forget

NextRows ==
    \/ BulkInsertRentals(RowBatches, {Ctx1})
    \/ InsertRental(RowRecords, {Ctx1})
    \/ Forget

SpecStoreFields == Init /\ [][NextFields]_vars
SpecStoreRows == Init /\ [][NextRows]_vars

-----------------------------------------------------------------------------
(* scrapers/rentals.py: get_rentals_klaz, one await at a time.              *)
(* scrape.exc is the exception the try block left with ("none", or the      *)
(* step that raised), scrape.outcome how the call ended; scrape.navs,       *)
(* scrape.waits and scrape.pages are what was done page by page,           *)
(* scrape.opened counts the calls of new_context_page that returned.       *)

AfterIterationOneMore(i, page_count) == IF i + 1 <= page_count THEN "navigate" ELSE "finally"
\* where the for loop goes after iteration i (0-based) is done
AfterIteration(i, page_count) == IF i + 1 < page_count THEN "navigate" ELSE "finally"

\* browser_page = await browser_manager.new_context_page(), the loop entered
ScrapeStart(categories, page_counts) ==
    \E category \in categories, page_count \in page_counts, ok \in BOOLEAN :
        /\ scrape.pc \in {"idle", "done"}
        /\ scrape' = IF ok
                     THEN [NoScrape EXCEPT !.pc = IF page_count > 0 THEN "navigate" ELSE "finally",
                                           !.category = category,
                                           !.page_count = page_count,
                                           !.acquired = TRUE, !.opened = 1]
                     ELSE [NoScrape EXCEPT !.pc = "done", !.category = category,
                                           !.page_count = page_count,
                                           !.outcome = "new_page_error"]
        /\ UNCHANGED <<store_vars, cache_vars, worker_vars, router_vars>>

\* await browser_page.goto(search_url, ...) for page i + 1
Navigate ==
    \E ok \in BOOLEAN :
        /\ scrape.pc = "navigate"
        /\ scrape' = [scrape EXCEPT !.navs = Append(@, scrape.i + 1),
                                    !.pc = IF ok THEN "wait" ELSE "finally",
                                    !.exc = IF ok THEN "none" ELSE "goto"]
        /\ UNCHANGED <<store_vars, cache_vars, worker_vars, router_vars>>

AfterWaitAborts(ok) == IF ok THEN "extract" ELSE "finally"
\* try: wait_for_selector ... except Exception: print a warning; the loop
\* body goes on to the extraction either way
AfterWaitForSelector(ok) == "extract"

\* await browser_page.wait_for_selector(".ad-listitem", ...): a failure is
\* caught and the loop body goes on
WaitForListings ==
    \E ok \in BOOLEAN :
        /\ scrape.pc = "wait"
        /\ scrape' = [scrape EXCEPT !.pc = AfterWaitForSelector(ok),
                                    !.waited = IF ok THEN "visible" ELSE "timeout",
                                    !.waits = Append(@, IF ok THEN "visible" ELSE "timeout")]
        /\ UNCHANGED <<store_vars, cache_vars, worker_vars, router_vars>>

\* page_results = await get_rental_ads(...); results.extend(page_results)
Extract(card_lists) ==
    /\ scrape.pc = "extract"
    /\ \/ \E cards \in card_lists :
            LET page_results == GetRentalAds(cards, NormalizedAllowed(scrape.category)) IN
            scrape' = [scrape EXCEPT !.cards = cards, !.emitted = page_results,
                                     !.pages = Append(@, [cards |-> cards,
                                                          emitted |-> page_results]),
                                     !.results = @ \o page_results,
                                     !.i = @ + 1,
                                     !.pc = AfterIteration(scrape.i, scrape.page_count)]
       \/ scrape' = [scrape EXCEPT !.pc = "finally", !.exc = "extract"]
    /\ UNCHANGED <<store_vars, cache_vars, worker_vars, router_vars>>

\* the task is cancelled at an await inside the try block
Cancel ==
    /\ scrape.pc \in {"navigate", "wait", "extract"}
    /\ scrape' = [scrape EXCEPT !.pc = "finally", !.exc = "cancelled"]
    /\ UNCHANGED <<store_vars, cache_vars, worker_vars, router_vars>>

ClosesOnlyOnReturn(closes, exc) == IF exc = "none" THEN closes + 1 ELSE closes
\* finally: await browser_manager.close_page(browser_page)
ClosesAfterFinally(closes, exc) == closes + 1

OutcomeSwallowsError(exc) == IF exc = "cancelled" THEN "cancelled" ELSE "returned"
\* how the call ends: the list is returned, except Exception turns an error
\* into HTTPException(500), a cancellation passes through
OutcomeOf(exc) ==
    CASE exc = "none" -> "returned"
      [] exc \in {"goto", "extract"} -> "http500"
      [] exc = "cancelled" -> "cancelled"

\* the except and finally clauses; page.close() may itself raise
ClosePage ==
    \E ok \in BOOLEAN :
        /\ scrape.pc = "finally"
        /\ scrape' = [scrape EXCEPT !.closes = ClosesAfterFinally(@, scrape.exc),
                                    !.pc = "done",
                                    !.outcome = IF ok THEN OutcomeOf(scrape.exc)
                                                ELSE "close_error"]
        /\ UNCHANGED <<store_vars, cache_vars, worker_vars, router_vars>>

NextScrapeFilter ==
    \/ ScrapeStart(Categories, {1})
    \/ Navigate
    \/ WaitForListings
    \/ Extract(CardLists(FilterCards))
    \/ Cancel
    \/ ClosePage

NextScrapePages ==
    \/ ScrapeStart({<<"c", "2", "0", "3">>}, 1..MaxPages)
    \/ Navigate
    \/ WaitForListings
    \/ Extract(CardLists(PageCards))
    \/ Cancel
    \/ ClosePage

SpecScrapeFilter == Init /\ [][NextScrapeFilter]_vars
SpecScrapePages == Init /\ [][NextScrapePages]_vars

\* search_url = await build_search_url(...): the caller keeps the URL of the
\* call before to compare
BuildSearchUrlCall ==
    \E a \in SearchArgs :
        /\ url_call' = [op |-> "build_search_url", args |-> a, url |-> BuildSearchUrl(a),
                        prev |-> IF url_call.op = "none" THEN NoUrlCall
                                 ELSE [op |-> url_call.op, args |-> url_call.args,
                                       url |-> url_call.url]]
        /\ UNCHANGED <<store_vars, scrape, cache_vars, worker_vars, request, key_call>>

NextSearchUrl == BuildSearchUrlCall

SpecSearchUrl == Init /\ [][NextSearchUrl]_vars

\* cache_key = build_cache_key(namespace, **params)
BuildCacheKeyCall ==
    \E namespace \in Namespaces, params \in ParamLists :
        /\ key_call.op = "none"
        /\ key_call' = [op |-> "build_cache_key", namespace |-> namespace,
                        params |-> params, key |-> BuildCacheKey(namespace, params)]
        /\ UNCHANGED <<store_vars, scrape, cache_vars, worker_vars, request, url_call>>

\* the caller is done with the key
DropCacheKey ==
    /\ key_call.op # "none"
    /\ key_call' = NoKeyCall
    /\ UNCHANGED <<store_vars, scrape, cache_vars, worker_vars, request, url_call>>

\* mutant: what a session has flushed stays in the table when it exits with
\* an exception
AfterExitKeepsFlushed(committed, flushed, raised) == flushed
\* line 154 and line 196: the table after the with block of a session that
\* flushed its statements onto the committed table; session.commit() makes
\* them durable, an exception leaves the block through Session.__exit__,
\* which rolls back
AfterExit(committed, flushed, raised) == IF raised THEN committed ELSE flushed

\* bulk_insert_rentals in two workers, one statement at a time.  A session
\* reads the committed table until its first INSERT or UPDATE, which begins
\* its transaction (tx) and takes the write lock of the SQLite file; from
\* then on it reads and writes its own table, which commit makes the
\* committed one.  The object of the last record (pending) is flushed by the
\* query of the next record or by the commit.  A statement fails with
\* OperationalError when the database fails or when another session holds
\* the write lock until the busy timeout, and an INSERT with IntegrityError
\* when FlushOK finds its constraints violated.
BulkInsertStatement ==
    \E s \in {1, 2}, fault \in BOOLEAN :
        /\ LET self == sessions[s]
               A == FullRecord(Adid(1), 1)
               B == FullRecord(Adid(2), 1)
               start(batch) ==
                   [pc |-> "loop", batch |-> batch, i |-> 1, tx |-> FALSE, table |-> <<>>,
                    pending |-> [kind |-> "none"], inserted |-> 0, updated |-> 0,
                    exc |-> "none", new |-> {}]
               exit(exc) ==
                   /\ sessions' = [sessions EXCEPT ![s] =
                          [self EXCEPT !.pc = "done", !.exc = exc, !.tx = FALSE,
                                       !.table = <<>>, !.pending = [kind |-> "none"]]]
                   /\ rows' = AfterExit(rows, IF self.tx THEN self.table ELSE rows,
                                        exc # "none")
           IN IF self.pc # "loop"
              THEN \* line 154: the session is created
                   /\ ~fault
                   /\ \E batch \in {<<A>>, <<A, B>>, <<B, FullRecord(Adid(1), 2)>>,
                                     <<FullRecord(<<>>, 1), A, FullRecord(Adid(1), 2)>>} :
                         sessions' = [sessions EXCEPT ![s] = start(batch)]
                   /\ UNCHANGED rows
              ELSE IF self.i <= Len(self.batch) /\ ~Truthy(self.batch[self.i].adid)
              THEN \* lines 157-159: `if not adid: continue`
                   /\ ~fault
                   /\ sessions' = [sessions EXCEPT ![s].i = @ + 1]
                   /\ UNCHANGED rows
              ELSE LET pending == self.pending
                       base == IF self.tx THEN self.table ELSE rows
                       writes == \/ pending.kind = "insert"
                                 \/ pending.kind = "update" /\ pending.row # pending.loaded
                       flushed ==
                           IF pending.kind = "insert"
                           THEN Append(base, [pending.row EXCEPT !.id = Len(base) + 1])
                           ELSE IF pending.kind = "update"
                           THEN [base EXCEPT ![pending.at] =
                                    [f \in DOMAIN @ |->
                                        IF pending.row[f] # pending.loaded[f]
                                        THEN pending.row[f] ELSE @[f]]]
                           ELSE base
                       tx == self.tx \/ writes
                   IN IF fault \/ (writes /\ sessions[3 - s].tx)
                      THEN exit("OperationalError")
                      ELSE IF pending.kind = "insert"
                              /\ ~FlushOK(base, Len(base) + 1, pending.row)
                      THEN exit("IntegrityError")
                      ELSE IF self.i > Len(self.batch)
                      THEN \* line 196: session.commit()
                           /\ sessions' = [sessions EXCEPT ![s] =
                                  [self EXCEPT !.pc = "done", !.tx = FALSE, !.table = <<>>,
                                               !.pending = [kind |-> "none"],
                                               !.new = @ \cup (IF pending.kind = "insert"
                                                               THEN {pending.row.adid}
                                                               ELSE {})]]
                           /\ rows' = AfterExit(rows, flushed, FALSE)
                      ELSE \* lines 160-195: the query, then the new or changed object
                           LET r == self.batch[self.i]
                               hits == RowsWithAdid(flushed, r.adid)
                               at == CHOOSE k \in hits : TRUE
                           IN /\ sessions' = [sessions EXCEPT ![s] =
                                     [self EXCEPT
                                        !.i = @ + 1, !.tx = tx,
                                        !.table = IF tx THEN flushed ELSE <<>>,
                                        !.new = @ \cup (IF pending.kind = "insert"
                                                        THEN {pending.row.adid} ELSE {}),
                                        !.pending =
                                           IF hits = {}
                                           THEN [kind |-> "insert",
                                                 row |-> NewRowBulk(0, r, Ctx1)]
                                           ELSE [kind |-> "update", at |-> at,
                                                 loaded |-> flushed[at],
                                                 row |-> UpdatedRowBulk(flushed[at], r, Ctx1)],
                                        !.inserted = IF hits = {} THEN @ + 1 ELSE @,
                                        !.updated = IF hits = {} THEN @ ELSE @ + 1]]
                              /\ UNCHANGED rows
        /\ UNCHANGED <<last, scrape, cache_vars, router_vars, validated, browser_vars>>

SpecSessions == Init /\ [][BulkInsertStatement]_vars

\* mutant: one PlaywrightManager object serves every request
NewManagerShared(p) == 0
\* routers/rentals.py line 64: PlaywrightManager() gives request p an object
\* of its own
NewManager(p) == p

\* get_rentals after a cache miss in two requests at the same time, one await
\* at a time: start() (line 65), then inside the try new_context_page, the
\* page loop and close_page of get_rentals_klaz, the store and the validation,
\* and close() in the finally clause.  Request p starts driver and Chromium p
\* and opens page p; every call works on the _browser its manager holds at
\* that moment, and any call may raise.
GetRentalsWorker ==
    \E p \in {1, 2}, ok \in BOOLEAN :
        /\ UNCHANGED <<store_vars, scrape, cache_vars, router_vars, validated, sessions>>
        /\ LET self == workers[p]
               m == self.manager
               b == managers[m].browser
               goes(pc, exc) == workers' = [workers EXCEPT ![p].pc = pc, ![p].exc = exc]
           IN CASE self.pc = "miss" ->
                     \* line 64
                     /\ ok
                     /\ workers' = [workers EXCEPT ![p].pc = "start",
                                                   ![p].manager = NewManager(p)]
                     /\ UNCHANGED <<managers, browsers, browser_pages>>
                [] self.pc = "start" ->
                     \* line 65, outside the try: async_playwright().start(), then
                     \* chromium.launch(); a failed launch leaves the driver running
                     /\ managers' = [managers EXCEPT ![m] =
                                       [playwright |-> p, browser |-> IF ok THEN p ELSE @.browser]]
                     /\ browsers' = [browsers EXCEPT ![p] =
                                       [playwright |-> "started",
                                        chromium |-> IF ok THEN "open" ELSE "none"]]
                     /\ workers' = [workers EXCEPT ![p].pc = IF ok THEN "new_page" ELSE "done",
                                                   ![p].started = ok,
                                                   ![p].exc = IF ok THEN "none" ELSE "start"]
                     /\ UNCHANGED browser_pages
                [] self.pc = "new_page" ->
                     \* scrapers/rentals.py line 89, before the try of get_rentals_klaz
                     IF ok /\ browsers[b].chromium = "open"
                     THEN /\ browser_pages' = [browser_pages EXCEPT ![p] =
                                     [state |-> "open", browser |-> b, used_by |-> {}]]
                          /\ goes("scrape", "none")
                          /\ UNCHANGED <<managers, browsers>>
                     ELSE /\ goes("close", "scrape")
                          /\ UNCHANGED <<managers, browsers, browser_pages>>
                [] self.pc = "scrape" ->
                     \* lines 92-133: goto, wait_for_selector, get_rental_ads
                     IF ok /\ browser_pages[p].state = "open"
                     THEN /\ browser_pages' = [browser_pages EXCEPT ![p].used_by = @ \cup {p}]
                          /\ goes("close_page", "none")
                          /\ UNCHANGED <<managers, browsers>>
                     ELSE /\ goes("close_page", "scrape")
                          /\ UNCHANGED <<managers, browsers, browser_pages>>
                [] self.pc = "close_page" ->
                     \* lines 136-137: the finally clause of get_rentals_klaz
                     /\ browser_pages' = IF ok THEN [browser_pages EXCEPT ![p].state = "closed"]
                                               ELSE browser_pages
                     /\ workers' = [workers EXCEPT
                           ![p].page_close = IF ok THEN "ok" ELSE "failed",
                           ![p].exc = IF ok THEN @ ELSE "close_page",
                           ![p].pc = IF ok /\ self.exc = "none" THEN "store" ELSE "close"]
                     /\ UNCHANGED <<managers, browsers>>
                [] self.pc = "store" ->
                     \* routers/rentals.py lines 80-86
                     /\ IF ok THEN goes("normalize", "none") ELSE goes("close", "store")
                     /\ UNCHANGED <<managers, browsers, browser_pages>>
                [] self.pc = "normalize" ->
                     \* lines 90-98: validation, cache write, the response
                     /\ IF ok THEN goes("close", "none") ELSE goes("close", "validation")
                     /\ UNCHANGED <<managers, browsers, browser_pages>>
                [] self.pc = "close" ->
                     \* lines 99-100: close() closes _browser, which closes its
                     \* pages, and stops _playwright unless _browser.close() raised
                     /\ browsers' =
                           [d \in {1, 2} |->
                               [playwright |-> IF ok /\ d = managers[m].playwright
                                               THEN "stopped" ELSE browsers[d].playwright,
                                chromium |-> IF ok /\ d = b
                                             THEN "closed" ELSE browsers[d].chromium]]
                     /\ browser_pages' =
                           [g \in {1, 2} |->
                               IF ok /\ browser_pages[g].state = "open" /\ browser_pages[g].browser = b
                               THEN [browser_pages[g] EXCEPT !.state = "closed"]
                               ELSE browser_pages[g]]
                     /\ goes("done", IF ok THEN self.exc ELSE "close")
                     /\ UNCHANGED managers
                [] OTHER -> FALSE

SpecWorkers == Init /\ [][GetRentalsWorker]_vars

MaxPieces == 5     \* pieces a raw field text is put together from

\* RealEstateResult built with one raw field: pydantic runs the field's
\* validator (mode="before") on the raw text.  The raw text is None, "-" or
\* up to MaxPieces pieces in a row, a piece being a digit, a group of three
\* digits, a separator, the superscript two or the currency sign with a
\* space; no text has more than nine characters, the digits an integer of the
\* model holds
ValidateField ==
    /\ validated.field = "none"
    /\ \E field \in {"price", "rental_space", "nbr_rooms", "views", "additional_costs",
                      "deposit"},
          n \in 0..MaxPieces :
          \E pieces \in [1..n -> {<<"1">>, <<"2", "0", "0">>, <<".">>, <<",">>, <<"²">>,
                                   <<"€", " ">>}] :
              LET RECURSIVE Join(_)
                  Join(ps) == IF ps = <<>> THEN <<>> ELSE Head(ps) \o Join(Tail(ps))
              IN \E value \in {Join(pieces)} \cup
                               (IF n = 0 THEN {None, <<"-">>} ELSE {}) :
                  /\ Len(value) <= 9
                  /\ validated' =
                        [field |-> field, value |-> value,
                         ret |-> CASE field = "price" -> NormalizePrice(value)
                                   [] field = "views" -> NormalizeViews(value)
                                   [] field \in {"rental_space", "nbr_rooms"} ->
                                          NormalizeFloat(value)
                                   [] OTHER -> NormalizeCostLike(value)]
    /\ UNCHANGED <<store_vars, scrape, cache_vars, router_vars, sessions, browser_vars>>

SpecValidators == Init /\ [][ValidateField]_vars

NextCacheKey ==
    \/ BuildCacheKeyCall
    \/ DropCacheKey

SpecCacheKey == Init /\ [][NextCacheKey]_vars

-----------------------------------------------------------------------------
(* The cache helpers, each call as one step; the server may fail any        *)
(* command with a RedisError or an OSError.                                 *)

CaughtOnlyRedisError(exc) == exc = "RedisError"
\* except (RedisError, OSError) as exc
Caught(exc) == exc \in {"RedisError", "OSError"}

\* get_cached_value(key), the server answering with its reply ("none") or
\* with an exception
GetCachedValueCall(key, err) ==
    IF ~CacheAvailable(config, cache_state)
    THEN /\ cache_call' = [NoCacheCall EXCEPT !.op = "get_cached_value", !.key = key,
                               !.disabled_before = cache_state.disabled]
         /\ UNCHANGED cache_state
    ELSE IF err # "none"
    THEN /\ cache_state' = IF Caught(err) THEN DisableCache(WithClient(cache_state))
                           ELSE WithClient(cache_state)
         /\ cache_call' = [NoCacheCall EXCEPT !.op = "get_cached_value", !.key = key,
                               !.failed = TRUE, !.raised = ~Caught(err),
                               !.contacted = TRUE,
                               !.created = ~cache_state.client,
                               !.disabled_before = cache_state.disabled]
    ELSE /\ cache_state' = WithClient(cache_state)
         /\ cache_call' = [NoCacheCall EXCEPT !.op = "get_cached_value", !.key = key,
                               !.ret = IF redis[key].payload = None THEN None
                                       ELSE JsonLoads(redis[key].payload),
                               !.contacted = TRUE,
                               !.created = ~cache_state.client,
                               !.disabled_before = cache_state.disabled]

GetCachedValue ==
    \E key \in CacheKeys, err \in {"none", "RedisError", "OSError"} :
        /\ GetCachedValueCall(key, err)
        /\ UNCHANGED <<store_vars, scrape, router_vars, config, worker_vars, redis>>

\* set_cached_value(key, value, ttl), payload being json.dumps(value,
\* default=str) and the server answering with err
SetCachedValueCall(key, payload, ttl, err) ==
    IF ~CacheAvailable(config, cache_state)
    THEN /\ cache_call' = [NoCacheCall EXCEPT !.op = "set_cached_value", !.key = key,
                               !.disabled_before = cache_state.disabled]
         /\ UNCHANGED <<cache_state, redis>>
    ELSE IF err # "none"
    THEN /\ cache_state' = IF Caught(err) THEN DisableCache(WithClient(cache_state))
                           ELSE WithClient(cache_state)
         /\ cache_call' = [NoCacheCall EXCEPT !.op = "set_cached_value", !.key = key,
                               !.failed = TRUE, !.raised = ~Caught(err),
                               !.contacted = TRUE,
                               !.created = ~cache_state.client,
                               !.disabled_before = cache_state.disabled]
         /\ UNCHANGED redis
    ELSE /\ cache_state' = WithClient(cache_state)
         /\ redis' = [redis EXCEPT ![key] =
                         [payload |-> payload,
                          ex |-> IF TruthyInt(ttl) THEN ttl[1] ELSE CACHE_TTL_SECONDS]]
         /\ cache_call' = [NoCacheCall EXCEPT !.op = "set_cached_value", !.key = key,
                               !.ok = TRUE, !.contacted = TRUE,
                               !.created = ~cache_state.client,
                               !.disabled_before = cache_state.disabled]

SetCachedValue ==
    \E key \in CacheKeys, value \in CacheValues, ttl \in Ttls,
       err \in {"none", "RedisError", "OSError"} :
        /\ SetCachedValueCall(key, JsonDumps(value), ttl, err)
        /\ UNCHANGED <<store_vars, scrape, router_vars, config, worker_vars>>

\* invalidate_cache(key)
InvalidateCache ==
    \E key \in CacheKeys, fails \in BOOLEAN :
        /\ IF ~CacheAvailable(config, cache_state)
           THEN /\ cache_call' = [NoCacheCall EXCEPT !.op = "invalidate_cache", !.key = key,
                                      !.disabled_before = cache_state.disabled]
                /\ UNCHANGED <<cache_state, redis>>
           ELSE IF fails
           THEN /\ cache_state' = DisableCache(WithClient(cache_state))
                /\ cache_call' = [NoCacheCall EXCEPT !.op = "invalidate_cache", !.key = key,
                                      !.failed = TRUE, !.contacted = TRUE,
                                      !.created = ~cache_state.client,
                                      !.disabled_before = cache_state.disabled]
                /\ UNCHANGED redis
           ELSE /\ cache_state' = WithClient(cache_state)
                /\ redis' = [redis EXCEPT ![key] = NoEntry]
                /\ cache_call' = [NoCacheCall EXCEPT !.op = "invalidate_cache", !.key = key,
                                      !.ok = redis[key].payload # None, !.contacted = TRUE,
                                      !.created = ~cache_state.client,
                                      !.disabled_before = cache_state.disabled]
        /\ UNCHANGED <<store_vars, scrape, router_vars, config, worker_vars>>

\* close_cache(); client.close() may raise, and then the client is kept
CloseCache ==
    \E ok \in BOOLEAN :
        /\ cache_state' = IF ok THEN CloseCacheState(cache_state) ELSE cache_state
        /\ cache_call' = [NoCacheCall EXCEPT !.op = "close_cache",
                              !.raised = cache_state.client /\ ~ok,
                              !.contacted = cache_state.client,
                              !.disabled_before = cache_state.disabled]
        /\ UNCHANGED <<store_vars, scrape, router_vars, config, worker_vars, redis>>

\* the server drops an entry whose time to live has run out
Expire ==
    \E key \in DOMAIN redis :
        /\ redis[key].payload # None
        /\ redis' = [redis EXCEPT ![key] = NoEntry]
        /\ request' = [request EXCEPT !.written = {w \in @ : w.key # key}]
        /\ UNCHANGED <<store_vars, scrape, url_call, key_call, config, worker_vars, cache_state, cache_call>>

NextCache ==
    \/ GetCachedValue
    \/ SetCachedValue
    \/ InvalidateCache
    \/ CloseCache
    \/ Expire

SpecCache == InitEnv /\ [][NextCache]_vars

-----------------------------------------------------------------------------
(* get_rentals, one step for each call it awaits.  One request runs at a    *)
(* time; the next one starts when the response is out.  The requests of    *)
(* one run use the defaults and one other filter.                           *)

\* what a cache helper call came to, as the request sees it
CallOutcome(call) ==
    IF call.failed THEN "failed"
    ELSE IF ~call.contacted THEN "off"
    ELSE IF call.op = "set_cached_value" THEN "ok"
    ELSE IF call.ret = None THEN "miss" ELSE "hit"

\* lines 32-52: the cache key and the search URL (page 1) get_rentals builds
\* from its parameters
KeyAndUrl ==
    [f \in Filters |-> [cache_key |-> RequestKey(f),
                        search_url |-> BuildSearchUrl([page |-> 1] @@ f)]]

\* what the caller receives for an exception that leaves get_rentals, which
\* has no handler of its own: the HTTPException of get_rentals_klaz goes out
\* with its status 500 and its detail, every other exception as the server's
\* plain 500
Reported(exc) ==
    IF exc = "scrape" THEN "500 detail" ELSE "500 Internal Server Error"

\* mutant: the cached value is looked up but the request scrapes all the same
GetRentalsLookupIgnoresHit ==
    \E f \in Filters, err \in {"none", "RedisError", "OSError"} :
        /\ request.pc \in {"idle", "done"}
        /\ Cardinality((request.seen \cup {f}) \ {DefaultFilter}) <= 1
        /\ GetCachedValueCall(KeyAndUrl[f].cache_key, err)
        /\ request' = [NoRequest EXCEPT !.pc = "browser", !.filter = f,
                                        !.cache_key = KeyAndUrl[f].cache_key,
                                        !.search_url = KeyAndUrl[f].search_url,
                                        !.read = CallOutcome(cache_call'),
                                        !.seen = request.seen \cup {f},
                                        !.written = request.written]
        /\ UNCHANGED <<store_vars, scrape, url_call, key_call, config, worker_vars, redis>>

\* lines 32-61: the key, the search URL and the cache lookup; a hit returns
GetRentalsLookup ==
    \E f \in Filters, err \in {"none", "RedisError", "OSError"} :
        /\ request.pc \in {"idle", "done"}
        /\ Cardinality((request.seen \cup {f}) \ {DefaultFilter}) <= 1
        /\ LET cache_key == KeyAndUrl[f].cache_key
               search_url == KeyAndUrl[f].search_url
           IN /\ GetCachedValueCall(cache_key, err)
              /\ LET cached == cache_call'.ret
                     started == [NoRequest EXCEPT !.filter = f, !.cache_key = cache_key,
                                                  !.search_url = search_url,
                                                  !.read = CallOutcome(cache_call'),
                                                  !.seen = request.seen \cup {f},
                                                  !.written = request.written]
                 IN request' =
                      IF cache_call'.raised
                      THEN [started EXCEPT !.pc = "done", !.exc = "cache",
                               !.response = [NoResponse EXCEPT !.status = "error",
                                                !.error = "cache",
                                                !.body = Reported("cache")]]
                      ELSE IF cached # None
                      THEN [started EXCEPT !.pc = "done",
                               !.response = [NoResponse EXCEPT !.status = "ok",
                                                !.success = TRUE,
                                                !.search_url = search_url,
                                                !.data = cached, !.cached = TRUE,
                                                !.origin = {w.filter : w \in
                                                              {v \in request.written :
                                                                 v.key = cache_key}}]]
                      ELSE [started EXCEPT !.pc = "browser"]
        /\ UNCHANGED <<store_vars, scrape, url_call, key_call, config, worker_vars, redis>>

\* lines 64-65: browser_manager.start(), outside the try
StartBrowser ==
    \E ok \in BOOLEAN :
        /\ request.pc = "browser"
        /\ request' = IF ok THEN [request EXCEPT !.pc = "scrape", !.browser = "started"]
                      ELSE [request EXCEPT !.pc = "done", !.exc = "browser_start",
                               !.response = [NoResponse EXCEPT !.status = "error",
                                                !.error = "browser_start",
                                                !.body = Reported("browser_start")]]
        /\ UNCHANGED <<store_vars, scrape, cache_vars, worker_vars, url_call, key_call>>

\* lines 67-76: get_rentals_klaz returns the results (none, one item, or two
\* of which the second has an old price that is no number), raises its
\* HTTPException, or leaves with the exception of close_page in its finally
\* clause
ScrapeRentals ==
    \E results \in {<<>>, <<ItemA>>,
                    <<ItemA, [ItemA EXCEPT !.adid = Adid(2),
                                           !.url = KLEINANZEIGEN_BASE_URL \o Path(Adid(2)),
                                           !.old_price = <<"1", ",", "5">>]>>},
       exc \in {"none", "scrape", "close_page"} :
        /\ request.pc = "scrape"
        /\ request' = IF exc = "none"
                      THEN [request EXCEPT !.pc = "store", !.results = results,
                                           !.scraped = TRUE]
                      ELSE [request EXCEPT !.pc = "close", !.exc = exc]
        /\ UNCHANGED <<store_vars, scrape, cache_vars, worker_vars, url_call, key_call>>

\* mutant: a failure of the store is swallowed and the request goes on
StoreRentalsSwallowsFailure ==
    \E db_ok \in BOOLEAN :
        /\ request.pc = "store"
        /\ LET f == request.filter
               out == BulkInsert(rows, request.results,
                                 [postal_code |-> f.postal_code, category |-> f.category,
                                  location_id |-> f.location_id,
                                  radius |-> Boxed(f.radius)])
           IN IF db_ok /\ ~out.ret.raised
              THEN /\ rows' = out.rows
                   /\ request' = [request EXCEPT !.pc = "normalize",
                                                 !.inserted = out.ret.inserted,
                                                 !.updated = out.ret.updated]
              ELSE /\ rows' = rows
                   /\ request' = [request EXCEPT !.pc = "normalize"]
        /\ UNCHANGED <<last, scrape, cache_vars, worker_vars, url_call, key_call>>

\* lines 80-86: bulk_insert_rentals; the database may fail the call once a
\* record makes the session issue a statement
StoreRentals ==
    \E db_ok \in BOOLEAN :
        /\ request.pc = "store"
        /\ LET f == request.filter
               out == BulkInsert(rows, request.results,
                                 [postal_code |-> f.postal_code, category |-> f.category,
                                  location_id |-> f.location_id,
                                  radius |-> Boxed(f.radius)])
              issued == \E i \in 1..Len(request.results) :
                           Truthy(request.results[i].adid)
           IN IF (db_ok \/ ~issued) /\ ~out.ret.raised
              THEN /\ rows' = out.rows
                   /\ request' = [request EXCEPT !.pc = "normalize",
                                                 !.inserted = out.ret.inserted,
                                                 !.updated = out.ret.updated]
              ELSE /\ rows' = rows
                   /\ request' = [request EXCEPT !.pc = "close", !.exc = "store"]
        /\ UNCHANGED <<last, scrape, cache_vars, worker_vars, url_call, key_call>>

\* mutant: a request whose scrape found nothing is turned into an error
NormalizeListingsRejectsEmpty ==
    /\ request.pc = "normalize"
    /\ request' = IF request.results # <<>>
                     /\ \A i \in 1..Len(request.results) : Validates(request.results[i])
                  THEN [request EXCEPT !.pc = "cache",
                                       !.listings = Listings(request.results)]
                  ELSE [request EXCEPT !.pc = "close", !.exc = "validation"]
    /\ UNCHANGED <<store_vars, scrape, cache_vars, worker_vars, url_call, key_call>>

\* line 90: every item validated and dumped
NormalizeListings ==
    /\ request.pc = "normalize"
    /\ request' = IF \A i \in 1..Len(request.results) : Validates(request.results[i])
                  THEN [request EXCEPT !.pc = "cache",
                                       !.listings = Listings(request.results)]
                  ELSE [request EXCEPT !.pc = "close", !.exc = "validation"]
    /\ UNCHANGED <<store_vars, scrape, cache_vars, worker_vars, url_call, key_call>>

\* line 91: set_cached_value(cache_key, listings, ttl=CACHE_TTL_SECONDS)
WriteCache ==
    \E err \in {"none", "RedisError", "OSError"} :
        /\ request.pc = "cache"
        /\ SetCachedValueCall(request.cache_key, request.listings,
                              Boxed(CACHE_TTL_SECONDS), err)
        /\ request' =
             IF cache_call'.raised
             THEN [request EXCEPT !.pc = "close", !.exc = "cache",
                                  !.write = CallOutcome(cache_call')]
             ELSE [request EXCEPT !.pc = "close", !.write = CallOutcome(cache_call'),
                      !.written =
                          IF cache_call'.ok
                          THEN {w \in request.written : w.key # request.cache_key}
                               \cup {[key |-> request.cache_key, filter |-> request.filter]}
                          ELSE request.written]
        /\ UNCHANGED <<store_vars, scrape, url_call, key_call, config, worker_vars>>

\* lines 92-100: the finally clause closes the browser, then the response or
\* the pending exception goes out; an exception of close() takes its place
CloseBrowser ==
    \E ok \in BOOLEAN :
        /\ request.pc = "close"
        /\ request' =
             [request EXCEPT
                !.pc = "done",
                !.browser = IF ok THEN "closed" ELSE "close_failed",
                !.response =
                    IF ~ok \/ request.exc # "none"
                    THEN [NoResponse EXCEPT !.status = "error",
                             !.error = IF ~ok THEN "close" ELSE request.exc,
                             !.body = Reported(IF ~ok THEN "close" ELSE request.exc)]
                    ELSE [NoResponse EXCEPT !.status = "ok", !.success = TRUE,
                             !.search_url = request.search_url,
                             !.data = request.listings, !.cached = FALSE,
                             !.db_stats = TRUE, !.inserted = request.inserted,
                             !.updated = request.updated,
                             !.origin = {request.filter}]]
        /\ UNCHANGED <<store_vars, scrape, cache_vars, worker_vars, url_call, key_call>>

NextRequest ==
    \/ GetRentalsLookup
    \/ StartBrowser
    \/ ScrapeRentals
    \/ StoreRentals
    \/ NormalizeListings
    \/ WriteCache
    \/ CloseBrowser
    \/ Expire

SpecRequest == InitEnv /\ [][NextRequest]_vars

-----------------------------------------------------------------------------
(* Claims about the store *)

BatchAdids(batch) == {batch[k].adid : k \in 1..Len(batch)}
StoredAdids(table) == {table[i].adid : i \in 1..Len(table)}
\* every record of the batch with this adid has field f None or ""
AllBlank(batch, adid, f) ==
    \A k \in 1..Len(batch) : batch[k].adid = adid => ~Truthy(batch[k][f])

\* C2: bulk_insert_rentals leaves a stored listing field as it was when the
\* incoming value for it is None or "" (for each of the ten listing fields);
\* a populated description survives an upsert with an empty description.
C2_BulkCoalesce ==
    last.op = "bulk_insert_rentals" =>
        /\ ~last.ret.raised
        /\ \A i \in 1..Len(last.before) : \A f \in ListingFields :
              (last.before[i].adid \in BatchAdids(last.batch)
               /\ AllBlank(last.batch, last.before[i].adid, f))
                  => rows[i][f] = last.before[i][f]

C2_Witness ==
    /\ last.op = "bulk_insert_rentals"
    /\ \E i \in 1..Len(last.before) : \E k \in 1..Len(last.batch) :
          /\ last.batch[k].adid = last.before[i].adid
          /\ last.batch[k].description = <<>>
          /\ Truthy(last.before[i].description)
          /\ rows[i].description = last.before[i].description
          /\ rows[i].title # last.before[i].title

\* C3: on insert_rental's update path every field is replaced only by a
\* non-empty, non-null incoming value; None or "" keeps the stored value.
C3_SingleCoalesce ==
    last.op = "insert_rental" =>
        \A i \in 1..Len(last.before) :
            last.before[i].adid = last.batch[1].adid =>
                \A f \in ListingFields :
                    rows[i][f] = IF Truthy(last.batch[1][f])
                                 THEN last.batch[1][f] ELSE last.before[i][f]

\* C4: a batch of N records with distinct non-empty adids, none stored,
\* upserted twice under the same context returns (N, 0) and then (0, N), and
\* get_rental_by_adid gives the same listing and context fields after the
\* second call as after the first.
DistinctUnstored(table, batch) ==
    /\ \A k \in 1..Len(batch) : Truthy(batch[k].adid)
    /\ \A j, k \in 1..Len(batch) : j # k => batch[j].adid # batch[k].adid
    /\ BatchAdids(batch) \cap StoredAdids(table) = {}

C4_UpsertIdempotent ==
    (last.op = "bulk_insert_rentals" /\ last.repeat
     /\ DistinctUnstored(last.first.before, last.batch)) =>
        /\ last.first.ret = [raised |-> FALSE, inserted |-> Len(last.batch), updated |-> 0]
        /\ last.ret = [raised |-> FALSE, inserted |-> 0, updated |-> Len(last.batch)]
        /\ \A a \in BatchAdids(last.batch) :
              /\ GetRentalByAdid(rows, a) # <<>>
              /\ GetRentalByAdid(rows, a) = GetRentalByAdid(last.before, a)

C4_Witness ==
    /\ last.op = "bulk_insert_rentals" /\ last.repeat
    /\ DistinctUnstored(last.first.before, last.batch)
    /\ Len(last.batch) = MaxBatch
    /\ last.first.before # <<>>
    /\ last.ret.updated = MaxBatch

\* C5: the table holds at most one row per adid; a record whose adid is not
\* stored creates exactly one row, a record whose adid is stored changes that
\* row and creates none.
UniqueAdid ==
    \A i, j \in 1..Len(rows) : i # j => rows[i].adid # rows[j].adid

C5_OneRowPerAdid ==
    /\ UniqueAdid
    /\ last.op # "none" =>
          \A i \in 1..Len(last.before) :
              /\ i <= Len(rows)
              /\ rows[i].adid = last.before[i].adid /\ rows[i].id = last.before[i].id
    /\ last.op = "bulk_insert_rentals" =>
          /\ ~last.ret.raised
          /\ Len(rows) = Len(last.before)
                + Cardinality({a \in BatchAdids(last.batch) \ StoredAdids(last.before) : Truthy(a)})
          /\ last.ret.inserted = Len(rows) - Len(last.before)
    /\ (last.op = "insert_rental" /\ ~last.ret.raised) =>
          IF last.batch[1].adid \in StoredAdids(last.before)
          THEN Len(rows) = Len(last.before) /\ last.ret.updated = 1
          ELSE Len(rows) = Len(last.before) + 1 /\ last.ret.inserted = 1

C5_Witness ==
    /\ last.op = "bulk_insert_rentals"
    /\ Len(last.batch) = 2
    /\ last.batch[1].adid = last.batch[2].adid
    /\ last.batch[1].adid \notin StoredAdids(last.before)
    /\ Len(last.before) = 1
    /\ Len(rows) = 2

\* C6: bulk_insert_rentals skips a record whose adid is missing or empty, it
\* creates or changes no row for it, and inserted + updated is the number of
\* records of the batch with a non-empty adid.
C6_SkipsNoAdid ==
    last.op = "bulk_insert_rentals" =>
        /\ ~last.ret.raised
        /\ last.ret.inserted + last.ret.updated
              = Cardinality({k \in 1..Len(last.batch) : Truthy(last.batch[k].adid)})
        /\ \A i \in 1..Len(rows) :
              (i > Len(last.before) \/ rows[i] # last.before[i]) =>
                  \E k \in 1..Len(last.batch) :
                      Truthy(last.batch[k].adid) /\ last.batch[k].adid = rows[i].adid

C6_Witness ==
    /\ last.op = "bulk_insert_rentals"
    /\ \E j, k \in 1..Len(last.batch) :
          /\ last.batch[j].adid = <<>> /\ Truthy(last.batch[k].adid)
    /\ last.ret.inserted + last.ret.updated = 1
    /\ <<>> \in StoredAdids(last.before)

\* the records of the batch that carry this adid, by position
Occurrences(batch, adid) == {k \in 1..Len(batch) : batch[k].adid = adid}
\* the adids of the batch that are not None or "" and not stored before
UnseenAdids(table, batch) ==
    {a \in BatchAdids(batch) \ StoredAdids(table) : Truthy(a)}
\* field f of the occurrences of adid merged in batch order: the first one as
\* the insert path stores it, replaced by every later value that is not None
\* or ""
Merged(batch, ctx, adid, f) ==
    LET ks == Occurrences(batch, adid)
        first == CHOOSE k \in ks : \A j \in ks : k <= j
        later == {k \in ks : k > first /\ Truthy(batch[k][f])}
    IN IF later = {} THEN NewRowBulk(0, batch[first], ctx)[f]
       ELSE batch[CHOOSE k \in later : \A j \in later : j <= k][f]

\* C30: a batch that carries an adid not yet stored more than once creates
\* exactly one row for it: the call does not raise, the first occurrence is
\* counted as inserted and every later one as updated, and the row holds the
\* occurrences merged in batch order with coalesce semantics.
C30_DuplicateInBatch ==
    last.op = "bulk_insert_rentals" =>
        /\ ~last.ret.raised
        /\ last.ret.inserted = Cardinality(UnseenAdids(last.before, last.batch))
        /\ last.ret.updated =
              Cardinality({k \in 1..Len(last.batch) : Truthy(last.batch[k].adid)})
              - last.ret.inserted
        /\ \A a \in UnseenAdids(last.before, last.batch) :
              /\ Cardinality(RowsWithAdid(rows, a)) = 1
              /\ \A i \in RowsWithAdid(rows, a) : \A f \in ListingFields :
                    rows[i][f] = Merged(last.batch, last.ctx, a, f)

C30_Witness ==
    /\ last.op = "bulk_insert_rentals" /\ ~last.repeat
    /\ Len(last.batch) = 2
    /\ last.batch[1] = Blanked(FullRecord(Adid(1), 1), ListingFields, None)
    /\ last.batch[2] = FullRecord(Adid(1), 1)
    /\ Adid(1) \notin StoredAdids(last.before)
    /\ last.ret = [raised |-> FALSE, inserted |-> 1, updated |-> 1]
    /\ \E i \in RowsWithAdid(rows, Adid(1)) :
          rows[i].title = FullRecord(Adid(1), 1).title /\ rows[i].description # None

\* the rows of the listings the last store call upserted
Observed ==
    {i \in 1..Len(rows) :
        \E k \in 1..Len(last.batch) :
            Truthy(last.batch[k].adid) /\ last.batch[k].adid = rows[i].adid}

\* bool(v) of a context value
ContextSet(f, v) == IF f = "radius" THEN TruthyInt(v) ELSE Truthy(v)

\* C20 as stated: after an upsert the stored postal_code, category,
\* location_id and radius of the listing are those of the scrape context of
\* that upsert, whatever the context, one without location_id included.
C20_ContextOfLastUpsert ==
    (last.op # "none" /\ ~last.ret.raised) =>
        \A i \in Observed : \A f \in ContextFields : rows[i][f] = last.ctx[f]

\* C20 amended: insert_rental stores the context of the call as it is, and so
\* does bulk_insert_rentals for a new listing; for a stored listing
\* bulk_insert_rentals replaces a context attribute only by a value that is
\* not None, "" or 0 and keeps the stored one otherwise.
C20_ContextCoalesced ==
    (last.op # "none" /\ ~last.ret.raised) =>
        \A i \in Observed : \A f \in ContextFields :
            rows[i][f] =
                IF last.op = "bulk_insert_rentals" /\ i <= Len(last.before)
                   /\ ~ContextSet(f, last.ctx[f])
                THEN last.before[i][f]
                ELSE last.ctx[f]

C20_Witness ==
    /\ last.op = "bulk_insert_rentals" /\ ~last.ret.raised
    /\ last.ctx = Ctx2
    /\ \E i \in Observed :
          /\ i <= Len(last.before)
          /\ last.before[i].location_id = Ctx1.location_id
          /\ rows[i].location_id = Ctx1.location_id
          /\ rows[i].radius = Ctx2.radius /\ rows[i].postal_code = Ctx2.postal_code

-----------------------------------------------------------------------------
(* Claims about the scraper *)

\* C1: a get_rentals_klaz call that acquired a page calls close_page on it
\* exactly once, as its last step, however the call ends (the list returned, a
\* navigation failure on any page, an exception during extraction).
C1_PageClosedOnce ==
    /\ scrape.closes <= 1
    /\ scrape.pc = "done" => scrape.closes = (IF scrape.acquired THEN 1 ELSE 0)
    /\ scrape.pc # "done" => scrape.closes = 0

C1_Witness ==
    /\ scrape.pc = "done" /\ scrape.acquired
    /\ scrape.exc = "extract" /\ scrape.outcome = "http500"
    /\ Len(scrape.navs) = MaxPages
    /\ scrape.closes = 1

\* the card is one the category filter gets to decide on
ReachesFilter(k) ==
    /\ k.classes \cap PromotedClasses = {}
    /\ k.article
    /\ Truthy(k.adid) /\ Truthy(k.href)
\* the hyphen-delimited tokens of the last non-empty path segment of the link
LinkTokens(k) ==
    LET segments == Split(RStrip(KLEINANZEIGEN_BASE_URL \o k.href, "/"), "/") IN
    Split(segments[Len(segments)], "-")
Emitted(k) == \E m \in 1..Len(scrape.emitted) : scrape.emitted[m].adid = k.adid
HasPrefix(s, prefix) ==
    Len(s) >= Len(prefix) /\ SubSeq(s, 1, Len(prefix)) = prefix

\* C7: with a category filter active, a card with an adid and a detail link
\* whose last path segment has no second hyphen-delimited token is emitted.
C7_NoCategoryKept ==
    \A j \in 1..Len(scrape.cards) :
        (/\ ReachesFilter(scrape.cards[j])
         /\ NormalizedAllowed(scrape.category) # {}
         /\ Len(LinkTokens(scrape.cards[j])) < 2)
            => Emitted(scrape.cards[j])

\* C8 as stated: scraping category c203, a card whose last path segment is
\* 1234-c203l... is emitted and one whose last path segment is 1234-c90l... is
\* dropped.
C8_PrefixedTokenKept ==
    scrape.category = <<"c", "2", "0", "3">> =>
        \A j \in 1..Len(scrape.cards) :
            LET k == scrape.cards[j] IN
            (ReachesFilter(k) /\ Len(LinkTokens(k)) >= 2) =>
                /\ HasPrefix(LinkTokens(k)[2], <<"c", "2", "0", "3", "l">>) => Emitted(k)
                /\ HasPrefix(LinkTokens(k)[2], <<"c", "9", "0", "l">>) => ~Emitted(k)

\* C8 amended: scraping category c203 the expected id is 203, what
\* _normalize_category_id leaves of the category; a card is emitted exactly
\* when the second hyphen token of its last path segment is 203, so 1234-203-...
\* is kept and 1234-90-..., 1234-c90l... and 1234-c203l... are dropped.
C8_NumericTokenKept ==
    scrape.category = <<"c", "2", "0", "3">> =>
        \A j \in 1..Len(scrape.cards) :
            LET k == scrape.cards[j] IN
            (ReachesFilter(k) /\ Len(LinkTokens(k)) >= 2) =>
                (Emitted(k) <=> LinkTokens(k)[2] = <<"2", "0", "3">>)

C8_Witness ==
    /\ scrape.category = <<"c", "2", "0", "3">>
    /\ scrape.cards = <<Card(1, Seg203), Card(2, Seg90)>>
    /\ Len(scrape.emitted) = 1
    /\ scrape.emitted[1].adid = Adid(1)
    /\ scrape.outcome = "returned"

-----------------------------------------------------------------------------
(* Claims about the page loop *)

\* the pages navigated so far are 1, 2, ... in this order, each once
NavsAscending == \A j \in 1..Len(scrape.navs) : scrape.navs[j] = j

\* a goto failed on page k: it was the last navigation, pages 1..k-1 are the
\* ones extracted
AbortedAtGoto ==
    /\ scrape.pc \in {"finally", "done"}
    /\ NavsAscending
    /\ Len(scrape.navs) = Len(scrape.pages) + 1

\* C14 as stated: a navigation failure on page k aborts the scrape (no
\* further navigation, no retry, no partial list returned) and the caller
\* receives HTTP 500 carrying the failure.
C14_NavFailureHttp500 ==
    scrape.exc = "goto" =>
        /\ AbortedAtGoto
        /\ scrape.pc = "done" => scrape.outcome = "http500"

\* C14 amended: a navigation failure on page k aborts the scrape (no further
\* navigation, no retry, no partial list returned) and the caller receives
\* one error: HTTP 500 carrying the failure, or the error close_page raised
\* in the finally clause in its place.
C14_NavFailureAborts ==
    scrape.exc = "goto" =>
        /\ AbortedAtGoto
        /\ scrape.pc = "done" => scrape.outcome \in {"http500", "close_error"}

C14_Witness ==
    /\ scrape.exc = "goto" /\ scrape.pc = "done"
    /\ scrape.outcome = "http500"
    /\ Len(scrape.navs) = 2 /\ Len(scrape.pages) = 1
    /\ scrape.results # <<>>

\* C15: when the wait for the listing cards fails or times out on page k the
\* scrape is not aborted: extraction is invoked for page k next, its records
\* are appended, and the loop goes on to page k+1.  (What can still end the
\* call early is the extraction raising or the task being cancelled.)
C15_WaitTimeoutTolerated ==
    \A k \in 1..Len(scrape.waits) :
        scrape.waits[k] = "timeout" =>
            /\ Len(scrape.pages) < k =>
                  (scrape.pc = "extract" \/ scrape.exc \in {"extract", "cancelled"})
            /\ Len(scrape.pages) >= k =>
                  /\ Len(scrape.results) >= Len(scrape.pages[k].emitted)
                  /\ k < scrape.page_count =>
                        \/ Len(scrape.navs) > k
                        \/ scrape.pc = "navigate"
                        \/ scrape.exc = "cancelled"
                  /\ k = scrape.page_count =>
                        (scrape.exc = "none" /\ scrape.pc \in {"finally", "done"})

C15_Witness ==
    /\ Len(scrape.waits) = 2 /\ scrape.waits[1] = "timeout"
    /\ Len(scrape.pages) = 2 /\ scrape.pages[1].emitted # <<>>
    /\ scrape.navs = <<1, 2>>
    /\ scrape.outcome = "returned"

\* the records of the pages extracted, page after page
RECURSIVE PageRecords(_)
PageRecords(pages) ==
    IF pages = <<>> THEN <<>> ELSE Head(pages).emitted \o PageRecords(Tail(pages))

\* the record was built from this card
BuiltFrom(record, k) ==
    /\ record.adid = k.adid
    /\ Truthy(k.href) /\ record.url = KLEINANZEIGEN_BASE_URL \o k.href
    /\ record.title = k.title

\* the records come from distinct cards of the list, in the order of the list
RECURSIVE InDomOrder(_, _)
InDomOrder(records, cards) ==
    IF records = <<>> THEN TRUE
    ELSE IF cards = <<>> THEN FALSE
    ELSE IF BuiltFrom(Head(records), Head(cards))
         THEN InDomOrder(Tail(records), Tail(cards))
         ELSE InDomOrder(records, Tail(cards))

\* C16: the list get_rentals_klaz builds holds the records of page 1, then
\* those of page 2, and so on, and the records of one page are in the DOM
\* order of their cards, each card giving at most one record.
C16_SourceOrder ==
    /\ scrape.results = PageRecords(scrape.pages)
    /\ \A k \in 1..Len(scrape.pages) :
          InDomOrder(scrape.pages[k].emitted, scrape.pages[k].cards)

C16_Witness ==
    /\ scrape.outcome = "returned"
    /\ Len(scrape.pages) = 2
    /\ scrape.pages[1].cards = <<Card(2, Seg203), Card(1, Seg203)>>
    /\ scrape.pages[2].cards = <<Card(1, Seg203), Card(2, Seg203)>>
    /\ Len(scrape.results) = 4
    /\ scrape.results[1].adid = Adid(2) /\ scrape.results[2].adid = Adid(1)
    /\ scrape.results[3].adid = Adid(1) /\ scrape.results[4].adid = Adid(2)

\* C17: a get_rentals_klaz call acquires exactly one page whatever
\* page_count is; on it pages 1..page_count are navigated in ascending order,
\* and page k+1 is navigated only after the extraction of page k returned.
C17_OnePageSequential ==
    scrape.acquired =>
        /\ scrape.opened = 1
        /\ NavsAscending
        /\ Len(scrape.navs) <= scrape.page_count
        /\ Len(scrape.pages) <= Len(scrape.navs)
        /\ Len(scrape.navs) <= Len(scrape.pages) + 1
        /\ scrape.outcome = "returned" => Len(scrape.navs) = scrape.page_count

C17_Witness ==
    /\ scrape.acquired /\ scrape.outcome = "returned"
    /\ scrape.page_count >= 2
    /\ Len(scrape.navs) = scrape.page_count
    /\ Len(scrape.pages) = scrape.page_count
    /\ scrape.opened = 1

\* the cards of the last page extracted that are regular, identified and
\* let through by the category filter
KeptCards ==
    {j \in 1..Len(scrape.cards) :
        /\ ReachesFilter(scrape.cards[j])
        /\ ~FilteredOut(scrape.cards[j], NormalizedAllowed(scrape.category))}

\* C19: get_rental_ads emits no record for a promoted card; a card without
\* adid or detail link is dropped, the extraction returns and the cards after
\* it are still processed; every emitted record has a non-empty adid and url.
C19_OnlyIdentifiedRegular ==
    /\ \A m \in 1..Len(scrape.emitted) :
          /\ Truthy(scrape.emitted[m].adid) /\ Truthy(scrape.emitted[m].url)
          /\ \E j \in KeptCards : BuiltFrom(scrape.emitted[m], scrape.cards[j])
    /\ \A j \in KeptCards : Emitted(scrape.cards[j])
    /\ Len(scrape.emitted) = Cardinality(KeptCards)

C19_Witness ==
    /\ scrape.outcome = "returned"
    /\ scrape.cards = <<[Card(8, Seg203) EXCEPT !.adid = None], Card(1, Seg203)>>
    /\ Len(scrape.emitted) = 1 /\ scrape.emitted[1].adid = Adid(1)

\* the text holds the piece at some position
Contains(text, piece) ==
    \E i \in 0..(Len(text) - Len(piece)) : SubSeq(text, i + 1, i + Len(piece)) = piece

\* the path segments of the URL that are price segments
PriceSegments(url) ==
    LET segments == Split(url, "/") IN
    {i \in 1..Len(segments) : HasPrefix(segments[i], <<"p", "r", "e", "i", "s", ":">>)}

\* C18: build_search_url gives the same URL for the same input; the URL has a
\* price segment exactly when min_price or max_price is not None, and the
\* segment is preis:<min>:<max> with a missing bound rendered as "".
C18_PriceSegment ==
    url_call.op = "build_search_url" =>
        LET a == url_call.args
            segments == Split(url_call.url, "/")
            priced == a.min_price # NoneInt \/ a.max_price # NoneInt IN
        /\ (url_call.prev.op # "none" /\ url_call.prev.args = a) =>
              url_call.prev.url = url_call.url
        /\ Contains(url_call.url, <<"p", "r", "e", "i", "s", ":">>) <=> priced
        /\ Cardinality(PriceSegments(url_call.url)) = (IF priced THEN 1 ELSE 0)
        /\ \A i \in PriceSegments(url_call.url) :
              LET bounds == Split(SubSeq(segments[i], 7, Len(segments[i])), ":") IN
              /\ Len(bounds) = 2
              /\ bounds[1] = (IF a.min_price = NoneInt THEN <<>> ELSE Str(a.min_price[1]))
              /\ bounds[2] = (IF a.max_price = NoneInt THEN <<>> ELSE Str(a.max_price[1]))

C18_Witness ==
    /\ url_call.op = "build_search_url"
    /\ url_call.prev.op # "none" /\ url_call.prev.args = url_call.args
    /\ url_call.args.min_price = NoneInt /\ url_call.args.max_price = Boxed(1000)
    /\ url_call.args.page = 2 /\ url_call.args.location_id = <<"l", "9", "2", "4", "5">>
    /\ url_call.url = KLEINANZEIGEN_BASE_URL \o
         <<"/", "s", "-", "w", "o", "h", "n", "u", "n", "g", "-", "m", "i", "e", "t", "e", "n", "/", "7", "4", "0", "7", "2", "/", "p", "r", "e", "i", "s", ":", ":", "1", "0", "0", "0", "/", "s", "e", "i", "t", "e", ":", "2", "/", "c", "2", "0", "3", "l", "9", "2", "4", "5", "r", "5">>

-----------------------------------------------------------------------------
(* Claims about the cache *)

\* the orderings of the same keyword arguments
Orderings(params) ==
    {[i \in 1..Len(params) |-> params[p[i]]] :
        p \in {q \in [1..Len(params) -> 1..Len(params)] :
                  \A i, j \in 1..Len(params) : i # j => q[i] # q[j]}}

\* C12: build_cache_key gives the same key for every ordering of the same
\* keyword arguments, and the same key each time it is called with them.
C12_KeyOrderIndependent ==
    key_call.op = "build_cache_key" =>
        \A params \in Orderings(key_call.params) :
            BuildCacheKey(key_call.namespace, params) = key_call.key

C12_Witness ==
    /\ key_call.op = "build_cache_key"
    /\ key_call.namespace = <<"r", "e", "n", "t", "a", "l", "s">>
    /\ Len(key_call.params) = 3
    /\ key_call.params[1].name = <<"p", "o", "s", "t", "a", "l", "_", "c", "o", "d", "e">>
    /\ key_call.params[2].name = <<"m", "i", "n", "_", "p", "r", "i", "c", "e">>
    /\ key_call.params[3].name = <<"m", "a", "x", "_", "p", "r", "i", "c", "e">>
    /\ key_call.key = <<"r", "e", "n", "t", "a", "l", "s", ":", "s", "h", "a", "1", ":", "[", "[", "\"", "m", "a", "x", "_", "p", "r", "i", "c", "e", "\"", ",", "1", "0", "]", ",", "[", "\"", "m", "i", "n", "_", "p", "r", "i", "c", "e", "\"", ",", "n", "u", "l", "l", "]", ",", "[", "\"", "p", "o", "s", "t", "a", "l", "_", "c", "o", "d", "e", "\"", ",", "\"", "7", "4", "0", "7", "2", "\"", "]", "]">>

-----------------------------------------------------------------------------
(* Claims about get_rentals *)

\* serialized, inside build_cache_key, for the request of filter f
Fingerprint(f) == Serialized(CacheKeyParams(f))

\* no two of the sample filters have the same fingerprint or the same key
DistinctFingerprints ==
    \A f, g \in Filters :
        f # g => Fingerprint(f) # Fingerprint(g) /\ RequestKey(f) # RequestKey(g)

\* C13: the key get_rentals builds covers postal_code, category, location_id,
\* radius, min_price, max_price and page_count: two requests that differ in
\* one of them have different fingerprints and different keys, and the data
\* of a response served from the cache was written by a request with the
\* same filter.
C13_KeyCoversFilters ==
    /\ DistinctFingerprints
    /\ \A w \in request.written : w.key = RequestKey(w.filter)
    /\ (request.pc = "done" /\ request.response.cached) =>
          request.response.origin = {request.filter}

C13_Witness ==
    /\ request.pc = "done"
    /\ request.filter = [DefaultFilter EXCEPT !.page_count = 2]
    /\ request.response.cached
    /\ request.response.data = Listings(<<ItemA>>)
    /\ request.seen = {DefaultFilter, request.filter}
    /\ \A f \in request.seen : redis[RequestKey(f)].payload # None

\* C11: no error of the cache backend leaves get_rentals: a request whose
\* cache read failed goes on to the scrape, and a request whose cache read or
\* cache write failed, and whose scrape, store, validation and browser close
\* succeeded, answers with success true, cached false and the listings of
\* its own scrape.
C11_CacheFailureNotSurfaced ==
    /\ request.exc # "cache" /\ request.response.error # "cache"
    /\ ~cache_call.raised
    /\ (request.read = "failed" /\ request.pc = "done") =>
          /\ ~request.response.cached
          /\ request.browser # "none" \/ request.exc = "browser_start"
    /\ (/\ request.pc = "done"
        /\ request.read = "failed" \/ request.write = "failed"
        /\ request.exc = "none" /\ request.browser = "closed") =>
          /\ request.response.status = "ok"
          /\ request.response.success /\ ~request.response.cached
          /\ request.response.data = Listings(request.results)

C11_Witness ==
    /\ request.pc = "done"
    /\ request.read = "miss" /\ request.write = "failed"
    /\ cache_call.op = "set_cached_value" /\ cache_call.failed
    /\ cache_state.disabled
    /\ request.results = <<ItemA>>
    /\ request.response.success /\ ~request.response.cached
    /\ request.response.data = Listings(<<ItemA>>)
    /\ redis[request.cache_key].payload = None

\* C23: every field validator is total: whatever the raw text, the call
\* returns a typed value or None and raises nothing.
C23_NormalizersTotal ==
    validated.field # "none" => validated.ret # ValueError

\* C24: for a text of digits and separators the cost-like validator reads a
\* point as thousands separator and a comma as decimal separator when both
\* occur, a comma alone as decimal separator, and a point alone as thousands
\* separator exactly when the piece after the last point has three digits,
\* as decimal point otherwise.
C24_SeparatorRule ==
    (/\ validated.field \in {"additional_costs", "deposit"}
     /\ validated.value \notin {None, <<>>}
     /\ \A i \in 1..Len(validated.value) :
           /\ validated.value[i] \in {"0", "1", "2", ".", ","}
           /\ validated.value[i] \in {".", ","} =>
                 /\ 1 < i /\ i < Len(validated.value)
                 /\ validated.value[i + 1] \notin {".", ","}) =>
        LET value == validated.value
            comma == \E i \in 1..Len(value) : value[i] = ","
            dot == \E i \in 1..Len(value) : value[i] = "."
            parts == Split(value, ".")
        IN validated.ret =
             TryFloat(IF comma /\ dot
                      THEN Replace(Replace(value, ".", <<>>), ",", <<".">>)
                      ELSE IF comma THEN Replace(value, ",", <<".">>)
                      ELSE IF dot /\ Len(parts[Len(parts)]) = 3
                      THEN Replace(value, ".", <<>>)
                      ELSE value)

\* C25: a scrape that returns no listings is no error: nothing in the request
\* raises because of it, and once the browser is closed the caller receives
\* success with the empty list, cached false and inserted = updated = 0. The
\* three kinds of answer differ in what the caller sees: an error carries no
\* success flag, no data and no counters, an answer from the cache carries
\* cached true and no counters, a fresh answer cached false and the counters.
C25_EmptyScrapeIsValid ==
    /\ (request.scraped /\ request.results = <<>>) =>
          /\ request.exc = "none"
          /\ request.inserted = 0 /\ request.updated = 0
          /\ (request.pc = "done" /\ request.browser = "closed") =>
                /\ request.response.status = "ok" /\ request.response.success
                /\ ~request.response.cached
                /\ request.response.data = <<"[", "]">>
                /\ request.response.db_stats
                /\ request.response.inserted = 0 /\ request.response.updated = 0
    /\ request.pc = "done" =>
          /\ request.exc \in {"scrape", "close_page"} =>
                request.response.status = "error"
          /\ request.response.status = "error" =>
                /\ ~request.response.success /\ ~request.response.cached
                /\ request.response.data = <<>> /\ ~request.response.db_stats
          /\ request.response.cached =>
                request.response.success /\ ~request.response.db_stats
          /\ (request.response.status = "ok" /\ ~request.response.cached) =>
                request.response.success /\ request.response.db_stats

\* C21: bulk_insert_rentals is one transaction. The committed table changes
\* only in the commit step of a call, after its last record, and then holds
\* every listing of the batch; a call that fails at any record or at the
\* commit leaves the committed table as it was and no transaction open.
C21_OneTransaction ==
    /\ [][rows' # rows =>
            \E s \in {1, 2} :
                /\ sessions[s].pc = "loop" /\ sessions[s].i > Len(sessions[s].batch)
                /\ sessions'[s].pc = "done" /\ sessions'[s].exc = "none"
                /\ \A k \in 1..Len(sessions[s].batch) :
                      Truthy(sessions[s].batch[k].adid) =>
                          sessions[s].batch[k].adid \in StoredAdids(rows')
                /\ Len(rows') = Len(rows) + Cardinality(sessions'[s].new)]_vars
    /\ [][\A s \in {1, 2} :
            (sessions[s].pc = "loop" /\ sessions'[s].pc = "done"
             /\ sessions'[s].exc # "none") =>
                rows' = rows /\ ~sessions'[s].tx]_vars

C21_Witness ==
    /\ sessions[1].pc = "done" /\ sessions[1].exc = "OperationalError"
    /\ sessions[1].new = {Adid(1)} /\ sessions[1].inserted = 2
    /\ sessions[2].pc = "idle"
    /\ rows = <<>>

\* C29: however two bulk_insert_rentals calls interleave, the table never
\* holds two rows with one adid, committed or inside a transaction; no two
\* calls commit an insert for the same adid; and a call that fails on the
\* unique constraint leaves the committed table as it was.
C29_UniqueUnderConcurrency ==
    /\ [](/\ \A a \in StoredAdids(rows) : Cardinality(RowsWithAdid(rows, a)) = 1
          /\ \A s \in {1, 2} : sessions[s].tx =>
                \A a \in StoredAdids(sessions[s].table) :
                    Cardinality(RowsWithAdid(sessions[s].table, a)) = 1
          /\ (\A s \in {1, 2} : sessions[s].pc = "done" /\ sessions[s].exc = "none") =>
                sessions[1].new \cap sessions[2].new = {})
    /\ [][\A s \in {1, 2} :
            (sessions[s].pc = "loop" /\ sessions'[s].pc = "done") =>
                IF sessions'[s].exc = "none"
                THEN sessions'[s].new \cap StoredAdids(rows) = {}
                ELSE rows' = rows]_vars

C29_Witness ==
    /\ sessions[1].pc = "done" /\ sessions[1].exc = "none"
    /\ Adid(1) \in sessions[1].new
    /\ sessions[2].pc = "done" /\ sessions[2].exc = "IntegrityError"
    /\ Adid(1) \in BatchAdids(sessions[2].batch)
    /\ Cardinality(RowsWithAdid(rows, Adid(1))) = 1

\* C22: a failure of bulk_insert_rentals after a successful scrape reaches the
\* caller as an error of its own kind: what the caller receives for it differs
\* from what it receives for a failed scrape and for every other failure of
\* the request.
C22_PersistenceErrorKind ==
    (request.pc = "done" /\ request.scraped /\ request.response.error = "store") =>
        \A exc \in {"scrape", "close_page", "validation", "close", "browser_start"} :
            request.response.body # Reported(exc)

\* C26: when get_cached_value returns a value for the request's key, the
\* response is that value with cached true, and the request starts no browser,
\* scrapes nothing and writes neither to the store nor to the cache; the
\* browser is started, the scrape returns and rows are written only in a
\* request whose lookup returned no value.
C26_HitServesCache ==
    /\ [](request.read = "hit" =>
            /\ request.pc = "done" /\ request.exc = "none"
            /\ request.browser = "none" /\ ~request.scraped
            /\ request.write = "none"
            /\ request.response.status = "ok" /\ request.response.success
            /\ request.response.cached /\ ~request.response.db_stats)
    /\ [][(GetRentalsLookup /\ request'.read = "hit") =>
            /\ redis[request'.cache_key].payload # None
            /\ request'.response.data = JsonLoads(redis[request'.cache_key].payload)
            /\ UNCHANGED <<rows, redis>>]_vars
    /\ [][(\/ rows' # rows
           \/ request'.browser = "started" /\ request.browser # "started"
           \/ request'.scraped /\ ~request.scraped) =>
            request.read \in {"miss", "off", "failed"}]_vars

C26_Witness ==
    /\ request.read = "hit" /\ request.pc = "done"
    /\ request.response.cached
    /\ request.response.data = Listings(<<ItemA>>)
    /\ redis[request.cache_key].payload = Listings(<<ItemA>>)
    /\ Len(rows) = 1

\* C28: on a miss the cache entry is written only after the scrape returned,
\* bulk_insert_rentals committed and every record was validated: a request in
\* which the scrape, the store call or the validation failed attempts no cache
\* write, and every entry a step puts under a key is put there by the request
\* of that key and is the dump of its validated results, each of which has its
\* row in the store.
C28_CacheAfterCommit ==
    /\ [](request.exc \in {"scrape", "close_page", "store", "validation",
                            "browser_start"} =>
            request.write = "none" /\ request.listings = <<>>)
    /\ [](request.write # "none" =>
            /\ request.scraped /\ request.read # "hit"
            /\ \A i \in 1..Len(request.results) : Validates(request.results[i]))
    /\ [][\A key \in DOMAIN redis :
            (redis'[key] # redis[key] /\ redis'[key].payload # None) =>
                /\ request.pc = "cache" /\ request.scraped /\ request.exc = "none"
                /\ key = request.cache_key
                /\ redis'[key].payload = Listings(request.results)
                /\ \A i \in 1..Len(request.results) :
                      /\ Validates(request.results[i])
                      /\ request.results[i].adid \in StoredAdids(rows)]_vars

C28_Witness ==
    /\ request.pc = "done" /\ request.write = "ok"
    /\ Len(request.results) = 1
    /\ redis[request.cache_key].payload = Listings(request.results)
    /\ request.results[1].adid \in StoredAdids(rows)

C25_Witness ==
    /\ request.pc = "done" /\ request.scraped /\ request.results = <<>>
    /\ request.read = "miss"
    /\ request.response.success /\ ~request.response.cached
    /\ request.response.data = Listings(<<>>)
    /\ request.response.inserted = 0 /\ request.response.updated = 0
    /\ rows = <<>>

\* the request's part of C27 in one state: the manager object request p works
\* through holds the driver and the Chromium p started and no other, its
\* page lives in that Chromium and no other request has used it, and once p
\* has left get_rentals after start() returned, close() was performed, the
\* page it opened had close_page performed on it, and unless one of the two
\* raised the page is closed, the Chromium is closed and the driver stopped
OwnSessionClosed(p) ==
    LET self == workers[p]
        opened == browser_pages[p].state # "none"
    IN /\ self.started => managers[self.manager] = [playwright |-> p, browser |-> p]
       /\ opened => browser_pages[p].browser = p /\ browser_pages[p].used_by \subseteq {p}
       /\ self.pc = "done" /\ self.started =>
             /\ opened => self.page_close # "none"
             /\ self.exc = "close" \/
                   /\ browsers[p] = [playwright |-> "stopped", chromium |-> "closed"]
                   /\ browser_pages[p].state \in {"none", "closed"}
             /\ self.exc \in {"none", "scrape", "close_page", "store", "validation", "close"}

\* C27: two requests served at the same time each use the browser session
\* and the page they opened themselves, no page is navigated or read by both,
\* and on every way out of get_rentals after start() returned (success,
\* scrape error, store error, validation error) the request closes the
\* session it started, and only after close_page was performed on its page:
\* a Chromium is closed by the request that started it, at its close step,
\* when its page is closed already or close_page raised on it
C27_OwnBrowserSession ==
    /\ [](\A p \in {1, 2} : OwnSessionClosed(p))
    /\ [][\A p \in {1, 2} :
            browsers[p].chromium # "closed" /\ browsers'[p].chromium = "closed" =>
                /\ workers[p].pc = "close" /\ workers'[p].pc = "done"
                /\ \/ browser_pages[p].state \in {"none", "closed"}
                   \/ workers[p].page_close = "failed"]_vars

\* request 1 has left on a store error with its session closed while
\* request 2 is still between its page loop and close_page on an open page
C27_Witness ==
    /\ workers[1].pc = "done" /\ workers[1].exc = "store"
    /\ browsers[1] = [playwright |-> "stopped", chromium |-> "closed"]
    /\ browser_pages[1].state = "closed"
    /\ workers[2].pc = "close_page"
    /\ browser_pages[2] = [state |-> "open", browser |-> 2, used_by |-> {2}]
    /\ browsers[2].chromium = "open"

CacheOps == {"get_cached_value", "set_cached_value", "invalidate_cache"}

\* C9: a get_cached_value or set_cached_value call during which the backend
\* raises returns a miss or False without raising and sets the disabled flag;
\* the flag is never reset afterwards, by close_cache or anything else, and
\* every call of get_cached_value, set_cached_value and invalidate_cache made
\* with the flag set returns a miss or False without contacting the backend.
C9_SoftFail ==
    /\ [](cache_call.failed =>
            /\ ~cache_call.raised
            /\ cache_call.ret = None /\ ~cache_call.ok
            /\ cache_state.disabled)
    /\ []((cache_call.op \in CacheOps /\ cache_call.disabled_before) =>
            /\ cache_call.ret = None /\ ~cache_call.ok /\ ~cache_call.raised
            /\ ~cache_call.contacted /\ ~cache_call.created)
    /\ [][cache_state.disabled => cache_state'.disabled]_vars

C9_Witness ==
    /\ cache_call.op = "set_cached_value"
    /\ cache_call.disabled_before
    /\ ~cache_call.ok
    /\ ~cache_state.client
    /\ config.CACHE_ENABLED /\ config.REDIS_URL # <<>>

\* C10: with CACHE_ENABLED false, REDIS_URL empty or the disabled flag set,
\* get_cached_value returns a miss and set_cached_value returns False, no
\* client is created and no command is sent to the backend.
C10_DisabledNoOp ==
    (/\ cache_call.op \in {"get_cached_value", "set_cached_value"}
     /\ (~config.CACHE_ENABLED \/ config.REDIS_URL = <<>> \/ cache_call.disabled_before)) =>
        /\ cache_call.ret = None /\ ~cache_call.ok /\ ~cache_call.raised
        /\ ~cache_call.created /\ ~cache_call.contacted
        /\ (~config.CACHE_ENABLED \/ config.REDIS_URL = <<>>) =>
              (~cache_state.client /\ \A k \in CacheKeys : redis[k] = NoEntry)

C10_Witness ==
    /\ cache_call.op = "get_cached_value"
    /\ config.CACHE_ENABLED /\ config.REDIS_URL = <<>>
    /\ cache_call.ret = None /\ ~cache_call.contacted

====
